---- MODULE Spec2Model ----
(***************************************************************************)
(* Model of the dynamic-plugin adapter of libkineto:                       *)
(*   PluginProfiler         (libkineto/src/dynamic_plugin/PluginProfiler.h) *)
(*   PluginProfilerSession  (same file)                                     *)
(*   PluginTraceBuilder     (dynamic_plugin/PluginTraceBuilder.h)           *)
(* together with the plugin module on the other side of the C boundary,    *)
(* which is the environment: each of its entry points may succeed or fail. *)
(***************************************************************************)
EXTENDS Integers, Sequences, FiniteSets, TLC

(***************************************************************************)
(* Bounds of the model.                                                    *)
(***************************************************************************)
\* sessions ever obtained from the one PluginProfiler
MaxSessions == 2
\* distinct wall-clock readings start()/stop() can record (1..MaxTime)
MaxTime == 2
\* events one builder accepts from the plugin's process-events call
MaxEvents == 2
\* calls made on the PluginTraceBuilder that is driven on its own
MaxBuilderCalls == 3
\* readings of the system clock the runloop sees (0..MaxClock)
MaxClock == 2
\* calls made on the per-trace data of the ActivityProfiler
MaxTraceCalls == 3
\* timestamps of GPU activities (1..MaxGpuTime)
MaxGpuTime == 2
\* CPU trace buffers one trace admits
MaxBuffers == 2
\* samples added to one overhead counter
MaxSamples == 2

(***************************************************************************)
(* Program constants.                                                      *)
(***************************************************************************)
\* nullptr, the value of a session's handle before / after a failed create
NullHandle == 0
\* KINETO_PLUGIN_PROFILER_INTERFACE_UNPADDED_STRUCT_SIZE: unpaddedStructSize
\* plus the six entry-point pointers of KinetoPlugin_ProfilerInterface
KINETO_PLUGIN_PROFILER_INTERFACE_UNPADDED_STRUCT_SIZE == 56
\* KINETO_PLUGIN_PROFILER_PROCESS_EVENTS_PARAMS_UNPADDED_STRUCT_SIZE:
\* unpaddedStructSize, pProfilerHandle, pTraceBuilder
KINETO_PLUGIN_PROFILER_PROCESS_EVENTS_PARAMS_UNPADDED_STRUCT_SIZE == 24
\* KINETO_PLUGIN_PROFILE_EVENT_FLOW_UNPADDED_STRUCT_SIZE: unpaddedStructSize,
\* flowType, flowId, isStartPoint
KINETO_PLUGIN_PROFILE_EVENT_FLOW_UNPADDED_STRUCT_SIZE == 17
\* KINETO_PLUGIN_PROFILE_RESOURCE_INFO_UNPADDED_STRUCT_SIZE:
\* unpaddedStructSize, deviceId, resourceId, displayOrder, pName
KINETO_PLUGIN_PROFILE_RESOURCE_INFO_UNPADDED_STRUCT_SIZE == 32
\* char profilerName[32] of the PluginProfiler constructor
profilerNameSize == 32
\* queryParams.profilerNameMaxLen
profilerNameMaxLen == 31
\* kLinkFwdBwd, kLinkAsyncCpuGpu: the flow types of an activity
kLinkFwdBwd == 1
kLinkAsyncCpuGpu == 2
\* KINETO_PLUGIN_PROFILE_EVENT_UNPADDED_STRUCT_SIZE: unpaddedStructSize,
\* eventType, startTimeUtcNs, endTimeUtcNs, eventId, deviceId, resourceId,
\* threadId
KINETO_PLUGIN_PROFILE_EVENT_UNPADDED_STRUCT_SIZE == 52

Sessions == 1..MaxSessions
Handles == 1..MaxSessions
Times == 1..MaxTime
\* the one reading of the clock in the specifications that do not vary it
OneTime == {MaxTime}

\* the closed enumeration ActivityType, as far as the adapter names it
ActivityType ==
    {"CPU_OP", "USER_ANNOTATION", "GPU_USER_ANNOTATION", "GPU_MEMCPY",
     "GPU_MEMSET", "CONCURRENT_KERNEL", "EXTERNAL_CORRELATION",
     "CUDA_RUNTIME", "CUDA_DRIVER", "CPU_INSTANT_EVENT", "PYTHON_FUNCTION",
     "OVERHEAD", "CUDA_SYNC", "GPU_PM_COUNTER", "CUDA_PROFILER_RANGE"}

\* the sentinel a plugin writes into unused slots of its supported-kinds array
KINETO_PLUGIN_PROFILE_EVENT_TYPE_INVALID == "KINETO_PLUGIN_PROFILE_EVENT_TYPE_INVALID"

\* PluginTraceBuilder::convertToActivityType: wire code -> internal kind
convertToActivityType(type) ==
    CASE type = "KINETO_PLUGIN_PROFILE_EVENT_TYPE_CPU_OP" -> "CPU_OP"
      [] type = "KINETO_PLUGIN_PROFILE_EVENT_TYPE_USER_ANNOTATION" -> "USER_ANNOTATION"
      [] type = "KINETO_PLUGIN_PROFILE_EVENT_TYPE_GPU_USER_ANNOTATION" -> "GPU_USER_ANNOTATION"
      [] type = "KINETO_PLUGIN_PROFILE_EVENT_TYPE_GPU_MEMCPY" -> "GPU_MEMCPY"
      [] type = "KINETO_PLUGIN_PROFILE_EVENT_TYPE_GPU_MEMSET" -> "GPU_MEMSET"
      [] type = "KINETO_PLUGIN_PROFILE_EVENT_TYPE_CONCURRENT_KERNEL" -> "CONCURRENT_KERNEL"
      [] type = "KINETO_PLUGIN_PROFILE_EVENT_TYPE_EXTERNAL_CORRELATION" -> "EXTERNAL_CORRELATION"
      [] type = "KINETO_PLUGIN_PROFILE_EVENT_TYPE_CUDA_RUNTIME" -> "CUDA_RUNTIME"
      [] type = "KINETO_PLUGIN_PROFILE_EVENT_TYPE_CUDA_DRIVER" -> "CUDA_DRIVER"
      [] type = "KINETO_PLUGIN_PROFILE_EVENT_TYPE_CPU_INSTANT_EVENT" -> "CPU_INSTANT_EVENT"
      [] type = "KINETO_PLUGIN_PROFILE_EVENT_TYPE_PYTHON_FUNCTION" -> "PYTHON_FUNCTION"
      [] type = "KINETO_PLUGIN_PROFILE_EVENT_TYPE_OVERHEAD" -> "OVERHEAD"
      [] type = "KINETO_PLUGIN_PROFILE_EVENT_TYPE_CUDA_SYNC" -> "CUDA_SYNC"
      [] type = "KINETO_PLUGIN_PROFILE_EVENT_TYPE_GPU_PM_COUNTER" -> "GPU_PM_COUNTER"
      [] OTHER -> "CONCURRENT_KERNEL"

(***************************************************************************)
(* The plugin module (environment).                                        *)
(***************************************************************************)
\* MockPlugin::profilerQuery: the supported-kinds array the plugin declares,
\* four kinds and then the sentinel in every remaining slot
MockSupportedActivityTypes ==
    << "KINETO_PLUGIN_PROFILE_EVENT_TYPE_CUDA_RUNTIME",
       "KINETO_PLUGIN_PROFILE_EVENT_TYPE_CUDA_DRIVER",
       "KINETO_PLUGIN_PROFILE_EVENT_TYPE_CONCURRENT_KERNEL",
       "KINETO_PLUGIN_PROFILE_EVENT_TYPE_GPU_MEMCPY",
       KINETO_PLUGIN_PROFILE_EVENT_TYPE_INVALID,
       KINETO_PLUGIN_PROFILE_EVENT_TYPE_INVALID >>

\* a second plugin: one kind, and a kind written behind the first sentinel
OtherSupportedActivityTypes ==
    << "KINETO_PLUGIN_PROFILE_EVENT_TYPE_GPU_MEMSET",
       KINETO_PLUGIN_PROFILE_EVENT_TYPE_INVALID,
       "KINETO_PLUGIN_PROFILE_EVENT_TYPE_CPU_OP",
       KINETO_PLUGIN_PROFILE_EVENT_TYPE_INVALID,
       KINETO_PLUGIN_PROFILE_EVENT_TYPE_INVALID,
       KINETO_PLUGIN_PROFILE_EVENT_TYPE_INVALID >>

\* MockPlugin::getInterface: the interface struct a plugin hands over, every
\* entry point the plugin's own function
PluginInterface(size) ==
    [unpaddedStructSize    |-> size,
     profilerCreate        |-> "plugin",
     profilerDestroy       |-> "plugin",
     profilerQuery         |-> "plugin",
     profilerStart         |-> "plugin",
     profilerStop          |-> "plugin",
     profilerProcessEvents |-> "plugin"]

\* the sets of kinds a caller requests in configure (the test's five cases)
RequestedSets ==
    { {},
      {"CPU_OP"},
      {"CPU_OP", "USER_ANNOTATION", "PYTHON_FUNCTION", "OVERHEAD"},
      {"CUDA_RUNTIME", "CPU_OP", "CONCURRENT_KERNEL", "USER_ANNOTATION"},
      {"CUDA_RUNTIME", "CUDA_DRIVER", "CONCURRENT_KERNEL", "GPU_MEMCPY"},
      {"CUDA_PROFILER_RANGE"} }

VARIABLES
    plugin,      \* the plugin module: interface struct, declared kinds, name
    handles,     \* MockPlugin::handles: handles created and not yet destroyed
    profiler,    \* the PluginProfiler object: constructed, profiler_, name_
    nSessions,   \* sessions configured so far
    session,     \* session id -> the PluginProfilerSession object
    builder,     \* session id -> the PluginTraceBuilder of a running processTrace
    sink,        \* what the running / last processTrace handed to its logger
    calls,       \* session id -> history of the session's boundary calls
    expected,    \* session id -> what the plugin successfully added in this call
    pluginCalled,\* the plugin's own entry points invoked so far
    lastCall,    \* the adapter operation that ran last, and its outcome
    traceBuilder,\* a PluginTraceBuilder driven directly through its C view
    tbCall,      \* the call made last on traceBuilder, and its outcome
    nameQuery,   \* the name query of a PluginProfiler under construction,
                 \* byte by byte: the buffer and the name stored from it
    activityProfiler, \* the ActivityProfiler object: its state shared between threads
    thread,      \* thread -> the ActivityProfiler entry point it is in, and where
    clock,       \* the system clock the threads read "now" from
    stateQuery,  \* the isActive() call made last: by whom, its result, and who
                 \* held mutex_ while it ran
    traceData,   \* the ActivityProfiler's per-trace members: externalEvents_, ...
    traceCalls,  \* the calls made on ExternalEventMap, or on the overhead
                 \* counters, oldest first
    lastTraceCall \* the call made last on the other per-trace members: its
                 \* arguments, and what it handed to the logger

\* the adapter: PluginProfiler, its sessions and the plugin behind them
adapterVars == << plugin, handles, profiler, nSessions, session, builder, sink, calls,
                  expected, pluginCalled, lastCall >>

\* the PluginTraceBuilder driven on its own
builderVars == << traceBuilder, tbCall >>

\* the name query seen byte by byte
queryVars == << nameQuery >>

\* the ActivityProfiler, the threads calling it and their clock
runloopVars == << activityProfiler, thread, clock >>

\* the state query made last
stateQueryVars == << stateQuery >>

\* the per-trace data of the ActivityProfiler and the calls made on it
traceDataVars == << traceData, traceCalls, lastTraceCall >>

\* what the adapter's operations leave alone
beyondAdapter == << builderVars, queryVars, runloopVars, stateQueryVars, traceDataVars >>

\* what the calls on the builder driven on its own leave alone
beyondBuilder == << adapterVars, queryVars, runloopVars, stateQueryVars, traceDataVars >>

\* what the byte-wise name query leaves alone
beyondQuery == << adapterVars, builderVars, runloopVars, stateQueryVars, traceDataVars >>

\* what the calls on the ActivityProfiler leave alone
beyondRunloop == << adapterVars, builderVars, queryVars, stateQueryVars, traceDataVars >>

\* what the state query leaves alone
beyondStateQuery == << adapterVars, builderVars, queryVars, runloopVars, traceDataVars >>

\* what the calls on the per-trace data leave alone
beyondTraceData == << adapterVars, builderVars, queryVars, runloopVars, stateQueryVars >>

vars == << adapterVars, builderVars, queryVars, runloopVars, stateQueryVars, traceDataVars >>

(***************************************************************************)
(* Calls across the boundary.  An entry point of an interface struct is    *)
(* either the plugin's own function ("plugin") or the adapter's stub that  *)
(* returns -1 ("stub").  A call's outcome is [rc, handle, real]: the       *)
(* result code, the handle the callee left in the parameter struct, and    *)
(* whether the plugin's own function ran.                                  *)
(***************************************************************************)
\* the smallest handle the plugin does not hold (an address may be reused
\* after its handle was destroyed)
FreshHandle == CHOOSE h \in Handles \ handles : \A g \in Handles \ handles : h <= g

\* the stub lambdas of validateProfiler
StubOutcome == [rc |-> -1, handle |-> NullHandle, real |-> FALSE]

\* profilerCreate: the stub, or the plugin: success with a fresh handle,
\* failure leaving the parameter untouched, or failure after having written
\* a handle it did not keep
CreateOutcomes(entry) ==
    IF entry = "stub" THEN {StubOutcome}
    ELSE { [rc |-> 0,  handle |-> FreshHandle, real |-> TRUE],
           [rc |-> -1, handle |-> NullHandle,  real |-> TRUE],
           [rc |-> -1, handle |-> FreshHandle, real |-> TRUE] }

\* profilerDestroy / profilerStart / profilerStop / profilerProcessEvents /
\* profilerQuery: the stub, or the plugin returning zero or non-zero
CallOutcomes(entry) ==
    IF entry = "stub" THEN {StubOutcome}
    ELSE { [rc |-> 0,  handle |-> NullHandle, real |-> TRUE],
           [rc |-> -1, handle |-> NullHandle, real |-> TRUE] }

\* the outcome of an operation that returned before any call
NoCall == [rc |-> 0, handle |-> NullHandle, real |-> FALSE]

(***************************************************************************)
(* TraceSpan, CpuTraceBuffer, GenericTraceActivity, as the adapter uses    *)
(* them.                                                                   *)
(***************************************************************************)
\* TraceSpan(startTime, endTime, name)
TraceSpan(startTime, endTime, name) ==
    [startTime |-> startTime, endTime |-> endTime, name |-> name]

\* a null std::unique_ptr<CpuTraceBuffer>
NullBuffer == [isNull |-> TRUE, span |-> TraceSpan(0, 0, ""), activities |-> << >>]

\* a null const char*
NullString == "(nullptr)"

\* a null const KinetoPlugin_ProfileEvent*
NullEvent ==
    [isNull |-> TRUE, unpaddedStructSize |-> 0, eventType |-> "", startTimeUtcNs |-> 0,
     endTimeUtcNs |-> 0, eventId |-> 0, deviceId |-> 0, resourceId |-> 0, threadId |-> 0]

(***************************************************************************)
(* PluginTraceBuilder                                                      *)
(***************************************************************************)
\* PluginTraceBuilder::PluginTraceBuilder
PluginTraceBuilder(span) ==
    [live |-> TRUE,
     buffer_ |-> [isNull |-> FALSE, span |-> span, activities |-> << >>],
     resourceInfos_ |-> << >>]

\* no builder: no processTrace of the session is running
NoBuilder == [live |-> FALSE, buffer_ |-> NullBuffer, resourceInfos_ |-> << >>]

\* the flow of an activity no setLastEventFlow has touched
NoFlow == [id |-> 0, type |-> 0, start |-> 0]

\* addEvent copying the start time into the end time as well
addEventEndFromStart(b, pProfileEvent) ==
    IF b.buffer_.isNull THEN [b |-> b, rc |-> -1]
    ELSE IF pProfileEvent.isNull THEN [b |-> b, rc |-> -1]
    ELSE IF pProfileEvent.unpaddedStructSize <
              KINETO_PLUGIN_PROFILER_PROCESS_EVENTS_PARAMS_UNPADDED_STRUCT_SIZE
    THEN [b |-> b, rc |-> -1]
    ELSE [b |-> [b EXCEPT !.buffer_.activities = Append(@,
                    [type         |-> convertToActivityType(pProfileEvent.eventType),
                     activityName |-> "",
                     startTime    |-> pProfileEvent.startTimeUtcNs,
                     endTime      |-> pProfileEvent.startTimeUtcNs,
                     id           |-> pProfileEvent.eventId,
                     device       |-> pProfileEvent.deviceId,
                     resource     |-> pProfileEvent.resourceId,
                     threadId     |-> pProfileEvent.threadId,
                     flow         |-> NoFlow,
                     metadata     |-> << >>])],
          rc |-> 0]

\* PluginTraceBuilder::addEvent: the builder afterwards and the result
addEvent(b, pProfileEvent) ==
    IF b.buffer_.isNull THEN [b |-> b, rc |-> -1]
    ELSE IF pProfileEvent.isNull THEN [b |-> b, rc |-> -1]
    ELSE IF pProfileEvent.unpaddedStructSize <
              KINETO_PLUGIN_PROFILER_PROCESS_EVENTS_PARAMS_UNPADDED_STRUCT_SIZE
    THEN [b |-> b, rc |-> -1]
    ELSE [b |-> [b EXCEPT !.buffer_.activities = Append(@,
                    [type         |-> convertToActivityType(pProfileEvent.eventType),
                     activityName |-> "",
                     startTime    |-> pProfileEvent.startTimeUtcNs,
                     endTime      |-> pProfileEvent.endTimeUtcNs,
                     id           |-> pProfileEvent.eventId,
                     device       |-> pProfileEvent.deviceId,
                     resource     |-> pProfileEvent.resourceId,
                     threadId     |-> pProfileEvent.threadId,
                     flow         |-> NoFlow,
                     metadata     |-> << >>])],
          rc |-> 0]

\* setLastEventName taking an empty builder for a success with nothing to do
setLastEventNameIgnoresEmpty(b, pName) ==
    IF b.buffer_.isNull THEN [b |-> b, rc |-> -1]
    ELSE IF pName = NullString THEN [b |-> b, rc |-> -1]
    ELSE IF b.buffer_.activities = << >> THEN [b |-> b, rc |-> 0]
    ELSE [b |-> [b EXCEPT !.buffer_.activities[Len(b.buffer_.activities)].activityName = pName],
          rc |-> 0]

\* PluginTraceBuilder::setLastEventName: the builder afterwards and the result
setLastEventName(b, pName) ==
    IF b.buffer_.isNull THEN [b |-> b, rc |-> -1]
    ELSE IF pName = NullString THEN [b |-> b, rc |-> -1]
    ELSE IF b.buffer_.activities = << >> THEN [b |-> b, rc |-> -1]
    ELSE [b |-> [b EXCEPT !.buffer_.activities[Len(b.buffer_.activities)].activityName = pName],
          rc |-> 0]

\* the fields addEvent reads of the event it is given
addEventReads(b, pProfileEvent) ==
    IF b.buffer_.isNull THEN {}
    ELSE IF pProfileEvent.isNull THEN {}
    ELSE IF pProfileEvent.unpaddedStructSize <
              KINETO_PLUGIN_PROFILER_PROCESS_EVENTS_PARAMS_UNPADDED_STRUCT_SIZE
    THEN {"unpaddedStructSize"}
    ELSE {"unpaddedStructSize", "eventType", "startTimeUtcNs", "endTimeUtcNs",
          "eventId", "deviceId", "resourceId", "threadId"}

\* convertToLinkType falling back to the first link type
convertToLinkTypeDefaultFwdBwd(type) ==
    CASE type = "KINETO_PLUGIN_PROFILE_EVENT_FLOW_TYPE_ASYNC_CPU_GPU" -> kLinkAsyncCpuGpu
      [] OTHER                                                        -> kLinkFwdBwd

\* PluginTraceBuilder::convertToLinkType
convertToLinkType(type) ==
    CASE type = "KINETO_PLUGIN_PROFILE_EVENT_FLOW_TYPE_FWD_BWD"       -> kLinkFwdBwd
      [] type = "KINETO_PLUGIN_PROFILE_EVENT_FLOW_TYPE_ASYNC_CPU_GPU" -> kLinkAsyncCpuGpu
      [] OTHER                                                        -> 0

(***************************************************************************)
(* PluginUtils.h: the free functions that repeat the builder's tables.     *)
(***************************************************************************)
\* the utility's table with the entry of the last kind missing
PluginUtils_convertToActivityTypeWithoutPmCounter(type) ==
    CASE type = "KINETO_PLUGIN_PROFILE_EVENT_TYPE_CPU_OP" -> "CPU_OP"
      [] type = "KINETO_PLUGIN_PROFILE_EVENT_TYPE_USER_ANNOTATION" -> "USER_ANNOTATION"
      [] type = "KINETO_PLUGIN_PROFILE_EVENT_TYPE_GPU_USER_ANNOTATION" -> "GPU_USER_ANNOTATION"
      [] type = "KINETO_PLUGIN_PROFILE_EVENT_TYPE_GPU_MEMCPY" -> "GPU_MEMCPY"
      [] type = "KINETO_PLUGIN_PROFILE_EVENT_TYPE_GPU_MEMSET" -> "GPU_MEMSET"
      [] type = "KINETO_PLUGIN_PROFILE_EVENT_TYPE_CONCURRENT_KERNEL" -> "CONCURRENT_KERNEL"
      [] type = "KINETO_PLUGIN_PROFILE_EVENT_TYPE_EXTERNAL_CORRELATION" -> "EXTERNAL_CORRELATION"
      [] type = "KINETO_PLUGIN_PROFILE_EVENT_TYPE_CUDA_RUNTIME" -> "CUDA_RUNTIME"
      [] type = "KINETO_PLUGIN_PROFILE_EVENT_TYPE_CUDA_DRIVER" -> "CUDA_DRIVER"
      [] type = "KINETO_PLUGIN_PROFILE_EVENT_TYPE_CPU_INSTANT_EVENT" -> "CPU_INSTANT_EVENT"
      [] type = "KINETO_PLUGIN_PROFILE_EVENT_TYPE_PYTHON_FUNCTION" -> "PYTHON_FUNCTION"
      [] type = "KINETO_PLUGIN_PROFILE_EVENT_TYPE_OVERHEAD" -> "OVERHEAD"
      [] type = "KINETO_PLUGIN_PROFILE_EVENT_TYPE_CUDA_SYNC" -> "CUDA_SYNC"
      [] OTHER -> "CONCURRENT_KERNEL"

\* convertToActivityType of PluginUtils.h: wire code -> internal kind
PluginUtils_convertToActivityType(type) ==
    CASE type = "KINETO_PLUGIN_PROFILE_EVENT_TYPE_CPU_OP" -> "CPU_OP"
      [] type = "KINETO_PLUGIN_PROFILE_EVENT_TYPE_USER_ANNOTATION" -> "USER_ANNOTATION"
      [] type = "KINETO_PLUGIN_PROFILE_EVENT_TYPE_GPU_USER_ANNOTATION" -> "GPU_USER_ANNOTATION"
      [] type = "KINETO_PLUGIN_PROFILE_EVENT_TYPE_GPU_MEMCPY" -> "GPU_MEMCPY"
      [] type = "KINETO_PLUGIN_PROFILE_EVENT_TYPE_GPU_MEMSET" -> "GPU_MEMSET"
      [] type = "KINETO_PLUGIN_PROFILE_EVENT_TYPE_CONCURRENT_KERNEL" -> "CONCURRENT_KERNEL"
      [] type = "KINETO_PLUGIN_PROFILE_EVENT_TYPE_EXTERNAL_CORRELATION" -> "EXTERNAL_CORRELATION"
      [] type = "KINETO_PLUGIN_PROFILE_EVENT_TYPE_CUDA_RUNTIME" -> "CUDA_RUNTIME"
      [] type = "KINETO_PLUGIN_PROFILE_EVENT_TYPE_CUDA_DRIVER" -> "CUDA_DRIVER"
      [] type = "KINETO_PLUGIN_PROFILE_EVENT_TYPE_CPU_INSTANT_EVENT" -> "CPU_INSTANT_EVENT"
      [] type = "KINETO_PLUGIN_PROFILE_EVENT_TYPE_PYTHON_FUNCTION" -> "PYTHON_FUNCTION"
      [] type = "KINETO_PLUGIN_PROFILE_EVENT_TYPE_OVERHEAD" -> "OVERHEAD"
      [] type = "KINETO_PLUGIN_PROFILE_EVENT_TYPE_CUDA_SYNC" -> "CUDA_SYNC"
      [] type = "KINETO_PLUGIN_PROFILE_EVENT_TYPE_GPU_PM_COUNTER" -> "GPU_PM_COUNTER"
      [] OTHER -> "CONCURRENT_KERNEL"

\* convertToLinkType of PluginUtils.h
PluginUtils_convertToLinkType(type) ==
    CASE type = "KINETO_PLUGIN_PROFILE_EVENT_FLOW_TYPE_FWD_BWD"       -> kLinkFwdBwd
      [] type = "KINETO_PLUGIN_PROFILE_EVENT_FLOW_TYPE_ASYNC_CPU_GPU" -> kLinkAsyncCpuGpu
      [] OTHER                                                        -> 0

\* the record of one code given to both copies of a table
ConversionCall(op, type, byUtils, byBuilder) ==
    [op |-> op, type |-> type, PluginUtils |-> byUtils, PluginTraceBuilder |-> byBuilder]

\* setLastEventFlow without the size check
setLastEventFlowUnchecked(b, pProfileEventFlow) ==
    IF b.buffer_.isNull THEN [b |-> b, rc |-> -1]
    ELSE IF pProfileEventFlow.isNull THEN [b |-> b, rc |-> -1]
    ELSE IF b.buffer_.activities = << >> THEN [b |-> b, rc |-> -1]
    ELSE [b |-> [b EXCEPT !.buffer_.activities[Len(b.buffer_.activities)].flow =
                    [id    |-> pProfileEventFlow.flowId,
                     type  |-> convertToLinkType(pProfileEventFlow.flowType),
                     start |-> IF pProfileEventFlow.isStartPoint THEN 1 ELSE 0]],
          rc |-> 0]

\* PluginTraceBuilder::setLastEventFlow: the builder afterwards and the result
setLastEventFlow(b, pProfileEventFlow) ==
    IF b.buffer_.isNull THEN [b |-> b, rc |-> -1]
    ELSE IF pProfileEventFlow.isNull THEN [b |-> b, rc |-> -1]
    ELSE IF pProfileEventFlow.unpaddedStructSize <
              KINETO_PLUGIN_PROFILE_EVENT_FLOW_UNPADDED_STRUCT_SIZE
    THEN [b |-> b, rc |-> -1]
    ELSE IF b.buffer_.activities = << >> THEN [b |-> b, rc |-> -1]
    ELSE [b |-> [b EXCEPT !.buffer_.activities[Len(b.buffer_.activities)].flow =
                    [id    |-> pProfileEventFlow.flowId,
                     type  |-> convertToLinkType(pProfileEventFlow.flowType),
                     start |-> IF pProfileEventFlow.isStartPoint THEN 1 ELSE 0]],
          rc |-> 0]

\* the fields setLastEventFlow reads of the flow it is given
setLastEventFlowReads(b, pProfileEventFlow) ==
    IF b.buffer_.isNull THEN {}
    ELSE IF pProfileEventFlow.isNull THEN {}
    ELSE IF pProfileEventFlow.unpaddedStructSize <
              KINETO_PLUGIN_PROFILE_EVENT_FLOW_UNPADDED_STRUCT_SIZE
    THEN {"unpaddedStructSize"}
    ELSE IF b.buffer_.activities = << >> THEN {"unpaddedStructSize"}
    ELSE {"unpaddedStructSize", "flowId", "flowType", "isStartPoint"}

\* addLastEventMetadata rejecting a null key only
addLastEventMetadataKeyOnly(b, pKey, pValue) ==
    IF b.buffer_.isNull THEN [b |-> b, rc |-> -1]
    ELSE IF pKey = NullString THEN [b |-> b, rc |-> -1]
    ELSE IF b.buffer_.activities = << >> THEN [b |-> b, rc |-> -1]
    ELSE [b |-> [b EXCEPT !.buffer_.activities[Len(b.buffer_.activities)].metadata =
                    Append(@, << pKey, pValue >>)],
          rc |-> 0]

\* addLastEventMetadata attaching the pair to the first event of the buffer
addLastEventMetadataOnFirst(b, pKey, pValue) ==
    IF b.buffer_.isNull THEN [b |-> b, rc |-> -1]
    ELSE IF pKey = NullString \/ pValue = NullString THEN [b |-> b, rc |-> -1]
    ELSE IF b.buffer_.activities = << >> THEN [b |-> b, rc |-> -1]
    ELSE [b |-> [b EXCEPT !.buffer_.activities[1].metadata = Append(@, << pKey, pValue >>)],
          rc |-> 0]

\* PluginTraceBuilder::addLastEventMetadata: the builder afterwards and the
\* result
addLastEventMetadata(b, pKey, pValue) ==
    IF b.buffer_.isNull THEN [b |-> b, rc |-> -1]
    ELSE IF pKey = NullString \/ pValue = NullString THEN [b |-> b, rc |-> -1]
    ELSE IF b.buffer_.activities = << >> THEN [b |-> b, rc |-> -1]
    ELSE [b |-> [b EXCEPT !.buffer_.activities[Len(b.buffer_.activities)].metadata =
                    Append(@, << pKey, pValue >>)],
          rc |-> 0]

\* one decimal digit as a character
Digit(d) == SubSeq("0123456789", d + 1, d + 1)

\* std::to_string of a non-negative int
RECURSIVE to_string(_)
to_string(n) == IF n < 10 THEN Digit(n) ELSE to_string(n \div 10) \o Digit(n % 10)

\* PluginTraceBuilder::addResourceInfo: the builder afterwards and the result
addResourceInfo(b, pProfileResourceInfo) ==
    IF pProfileResourceInfo.isNull THEN [b |-> b, rc |-> -1]
    ELSE IF pProfileResourceInfo.unpaddedStructSize <
              KINETO_PLUGIN_PROFILE_RESOURCE_INFO_UNPADDED_STRUCT_SIZE
    THEN [b |-> b, rc |-> -1]
    ELSE [b |-> [b EXCEPT !.resourceInfos_ = Append(@,
                    [deviceId  |-> pProfileResourceInfo.deviceId,
                     id        |-> pProfileResourceInfo.resourceId,
                     sortIndex |-> pProfileResourceInfo.displayOrder,
                     name      |-> IF pProfileResourceInfo.pName # NullString
                                   THEN pProfileResourceInfo.pName
                                   ELSE to_string(pProfileResourceInfo.resourceId)])],
          rc |-> 0]

\* the fields addResourceInfo reads of the resource info it is given
addResourceInfoReads(b, pProfileResourceInfo) ==
    IF pProfileResourceInfo.isNull THEN {}
    ELSE IF pProfileResourceInfo.unpaddedStructSize <
              KINETO_PLUGIN_PROFILE_RESOURCE_INFO_UNPADDED_STRUCT_SIZE
    THEN {"unpaddedStructSize"}
    ELSE {"unpaddedStructSize", "deviceId", "resourceId", "displayOrder", "pName"}

\* getTraceBuffer handing out the buffer while the builder keeps it
getTraceBufferKeepsBuffer(b) ==
    [buffer |-> b.buffer_, b |-> b]

\* PluginTraceBuilder::getTraceBuffer: the buffer moved out, the builder left
\* with a null buffer
getTraceBuffer(b) ==
    [buffer |-> b.buffer_, b |-> [b EXCEPT !.buffer_ = NullBuffer]]

(***************************************************************************)
(* PluginProfiler                                                          *)
(***************************************************************************)
\* validateProfiler forgetting to replace the create entry point
validateProfilerKeepsCreate(p) ==
    IF p.unpaddedStructSize < KINETO_PLUGIN_PROFILER_INTERFACE_UNPADDED_STRUCT_SIZE
    THEN [p EXCEPT !.profilerDestroy       = "stub",
                   !.profilerQuery         = "stub",
                   !.profilerStart         = "stub",
                   !.profilerStop          = "stub",
                   !.profilerProcessEvents = "stub"]
    ELSE p

\* PluginProfiler::validateProfiler
validateProfiler(p) ==
    IF p.unpaddedStructSize < KINETO_PLUGIN_PROFILER_INTERFACE_UNPADDED_STRUCT_SIZE
    THEN [p EXCEPT !.profilerCreate        = "stub",
                   !.profilerDestroy       = "stub",
                   !.profilerQuery         = "stub",
                   !.profilerStart         = "stub",
                   !.profilerStop          = "stub",
                   !.profilerProcessEvents = "stub"]
    ELSE p

\* PluginProfiler::PluginProfiler, lines 181-186: the name after the query
NameAfterQuery(errorCode, pProfilerName) ==
    IF errorCode # 0 THEN "N/A" ELSE pProfilerName

\* PluginProfiler::availableActivities
availableActivities == {"CUDA_PROFILER_RANGE"}

\* the kinds of a supported-kinds array, read in order up to the first
\* sentinel or the capacity, each under the internal kind of the same name
RECURSIVE DeclaredFrom(_, _)
DeclaredFrom(arr, i) ==
    IF i > Len(arr) \/ arr[i] = KINETO_PLUGIN_PROFILE_EVENT_TYPE_INVALID THEN {}
    ELSE {k \in ActivityType : arr[i] = "KINETO_PLUGIN_PROFILE_EVENT_TYPE_" \o k}
         \cup DeclaredFrom(arr, i + 1)

\* the supported kinds S the plugin declares
DeclaredKinds == DeclaredFrom(plugin.supported, 1)

\* configure admitting only a request all of whose kinds are supported
configureAllRequestedSupported(activity_types) ==
    activity_types # {} /\ activity_types \subseteq DeclaredKinds

\* PluginProfiler::configure, lines 205-206: whether a session is made for
\* the requested kinds (the code makes one unconditionally)
configureMakesSession(activity_types) == TRUE

\* the constructor keeping whatever create left in the parameter struct
HandleKeptOnError(errorCode, pProfilerHandle) == pProfilerHandle

\* PluginProfilerSession::PluginProfilerSession, lines 28-34
HandleAfterCreate(errorCode, pProfilerHandle) ==
    IF errorCode # 0 THEN NullHandle ELSE pProfilerHandle

\* the fields of a PluginProfilerSession that does not exist
NoSession ==
    [state |-> "none", profiler_ |-> PluginInterface(0), name_ |-> "",
     pProfilerHandle_ |-> NullHandle,
     lastStartTimestampUtcNs_ |-> 0, lastStopTimestampUtcNs_ |-> 0,
     traceBuffer_ |-> NullBuffer]

\* history of one session: invocations of the create and destroy entry
\* points and the handles they carried; whether create returned non-zero;
\* whether any boundary call did; whether a call passed a handle other than
\* the one create returned; the clock readings of the latest start and stop;
\* whether an earlier processTrace ran to its end, and handed events over;
\* whether getTraceBuffer was called since the latest processTrace
NoCalls ==
    [create |-> 0, created |-> NullHandle, createFailed |-> FALSE,
     destroy |-> 0, destroyed |-> NullHandle,
     failed |-> FALSE, foreign |-> FALSE, startNow |-> 0, stopNow |-> 0,
     processed |-> FALSE, delivered |-> FALSE, released |-> FALSE]

NoLastCall == [op |-> "none", s |-> 0, R |-> {}, result |-> 0, rc |-> 0,
               real |-> FALSE, handle |-> NullHandle, failedBefore |-> FALSE,
               processedBefore |-> FALSE, deliveredBefore |-> FALSE,
               releasedBefore |-> FALSE, buffer |-> NullBuffer]

\* a byte of a char buffer: the terminator, any other character, or a byte
\* nothing was written to since the buffer was declared
Nul == "NUL"
Chr == "chr"
Uninitialized == "uninitialized"

\* char profilerName[32], declared and not initialized
profilerNameBuffer == [i \in 1..profilerNameSize |-> Uninitialized]

\* no PluginProfiler under construction
NoNameQuery ==
    [done |-> FALSE, style |-> "", srcLen |-> 0, errorCode |-> 0,
     profilerName |-> profilerNameBuffer, name_ |-> [len |-> 0, inBuffer |-> TRUE]]

\* strncpy(dst, src, n) of a source of srcLen characters: the characters, then
\* terminators up to n bytes in all
strncpy(dst, srcLen, n) ==
    [i \in 1..Len(dst) |->
        IF i <= srcLen /\ i <= n THEN Chr
        ELSE IF i <= n THEN Nul
        ELSE dst[i]]

\* memcpy(dst, src, n)
memcpy(dst, n) == [i \in 1..Len(dst) |-> IF i <= n THEN Chr ELSE dst[i]]

\* how a plugin's profilerQuery may fill the name buffer it is given:
\* MockPlugin's strncpy followed by a terminator at profilerNameMaxLen; a
\* strncpy alone; a copy of the characters alone, as many as fit maxLen
profilerQueryWrites(style, pProfilerName, srcLen, maxLen) ==
    CASE style = "MockPlugin" ->
            [strncpy(pProfilerName, srcLen, maxLen) EXCEPT ![maxLen + 1] = Nul]
      [] style = "strncpy" -> strncpy(pProfilerName, srcLen, maxLen)
      [] style = "memcpy" ->
            memcpy(pProfilerName, IF srcLen < maxLen THEN srcLen ELSE maxLen)
      [] OTHER -> pProfilerName

QueryStyles == {"MockPlugin", "strncpy", "memcpy"}

\* std::string::assign(const char*): the characters up to the first
\* terminator.  A byte never written holds anything; past the end of the
\* array the read leaves the buffer and ends wherever a zero byte lies.
RECURSIVE assign(_, _)
assign(pProfilerName, i) ==
    IF i > Len(pProfilerName) THEN { [len |-> Len(pProfilerName), inBuffer |-> FALSE] }
    ELSE IF pProfilerName[i] = Nul THEN { [len |-> i - 1, inBuffer |-> TRUE] }
    ELSE IF pProfilerName[i] = Uninitialized
    THEN { [len |-> i - 1, inBuffer |-> TRUE] } \cup assign(pProfilerName, i + 1)
    ELSE assign(pProfilerName, i + 1)

\* name_.assign("N/A")
NotAvailable == [len |-> 3, inBuffer |-> TRUE]

\* PluginProfiler::PluginProfiler, lines 174-186, byte by byte: the plugin's
\* query fills the buffer and succeeds, or fails having written or not
queryProfilerName ==
    /\ ~nameQuery.done
    /\ \E style \in QueryStyles, srcLen \in 0..(profilerNameSize + 1), errorCode \in {0, -1} :
         LET buf == profilerQueryWrites(style, profilerNameBuffer, srcLen, profilerNameMaxLen) IN
         \E stored \in (IF errorCode # 0 THEN {NotAvailable} ELSE assign(buf, 1)) :
            nameQuery' = [done |-> TRUE, style |-> style, srcLen |-> srcLen,
                          errorCode |-> errorCode, profilerName |-> buf, name_ |-> stored]
    /\ UNCHANGED beyondQuery

\* PluginProfiler::~PluginProfiler
destroyProfilerName ==
    /\ nameQuery.done
    /\ nameQuery' = NoNameQuery
    /\ UNCHANGED beyondQuery

\* no call made on the builder yet
NoBuilderCall ==
    [op |-> "none", n |-> 0, rc |-> 0, nullArg |-> FALSE, size |-> 0, read |-> {},
     kind |-> ""]

(***************************************************************************)
(* ActivityProfiler: the runloop state machine and the mutex shared by the *)
(* control thread and the threads calling the synchronous API.             *)
(* ActivityProfiler.h holds the class; the member functions it only        *)
(* declares follow the component design of the specification.              *)
(***************************************************************************)

\* no thread: the value of a free mutex_
NoThread == "none"

\* the one thread that drives performRunLoopStep
ControlThread == "control"

\* application threads calling the synchronous API
CallerThreads == {"caller1", "caller2"}

Threads == {ControlThread} \cup CallerThreads

\* enum class RunloopState
RunloopState == {"WaitForRequest", "Warmup", "CollectTrace", "ProcessTrace"}

\* std::atomic<RunloopState> currentRunloopState_{RunloopState::WaitForRequest}
InitialRunloopState == "WaitForRequest"

\* the members shared with external threads, as the constructor leaves them
ActivityProfiler ==
    [currentRunloopState_ |-> InitialRunloopState,
     stopCollection_      |-> FALSE,
     profileStartTime_    |-> 0,
     profileEndTime_      |-> 0,
     mutex_               |-> NoThread,
     metadata_            |-> {},
     threadInfo_          |-> {}]

\* a thread outside the ActivityProfiler
Idle == [op |-> "none", at |-> "idle"]

\* the entry points that are a std::lock_guard on mutex_ followed by their body
InlineLockedButStopTrace ==
    {"startTrace", "processTrace", "reset",
     "applyNetFilter", "recordThreadInfo", "addMetadata"}

\* the entry points that are a std::lock_guard on mutex_ followed by their body
InlineLockedButAddMetadata ==
    {"startTrace", "stopTrace", "processTrace", "reset",
     "applyNetFilter", "recordThreadInfo"}

\* the entry points that are a std::lock_guard on mutex_ followed by their body
InlineLocked ==
    {"startTrace", "stopTrace", "processTrace", "reset",
     "applyNetFilter", "recordThreadInfo", "addMetadata"}

\* the entry points defined out of line, which take mutex_ in their body
OutOfLineLocked == {"configure", "transferCpuTrace", "performRunLoopStep"}

holdsMutex(op) == op \in InlineLocked \cup OutOfLineLocked

\* the synchronous API the caller threads use
SynchronousEntryPoints ==
    {"startTrace", "stopTrace", "processTrace", "reset", "configure",
     "transferCpuTrace", "applyNetFilter", "addMetadata", "recordThreadInfo"}

\* the part of the synchronous API that deals with the runloop
RunloopEntryPoints ==
    {"startTrace", "stopTrace", "processTrace", "reset", "configure", "transferCpuTrace"}

\* a configuration: how long to warm up and how long to collect
Configs == [warmup : 0..1, duration : 0..1]

\* configure(config, now): valid only from WaitForRequest, where it sets the
\* start and end time of the trace and begins the warm-up
installConfig(ap, config, now) ==
    IF ap.currentRunloopState_ = "WaitForRequest"
    THEN [ap EXCEPT !.currentRunloopState_ = "Warmup",
                    !.profileStartTime_ = now + config.warmup,
                    !.profileEndTime_ = now + config.warmup + config.duration,
                    !.stopCollection_ = FALSE]
    ELSE ap

\* startTraceInternal(now): the request to enter CollectTrace
startTraceInternal(ap, now) == [ap EXCEPT !.profileStartTime_ = now]

\* stopTraceInternal(now) that ends the collection itself
stopTraceInternalPreemptive(ap, now) ==
    [ap EXCEPT !.profileEndTime_ = now, !.stopCollection_ = TRUE,
               !.currentRunloopState_ =
                   IF @ = "CollectTrace" THEN "ProcessTrace" ELSE @]

\* stopTraceInternal(now): the request to leave CollectTrace
stopTraceInternal(ap, now) ==
    [ap EXCEPT !.profileEndTime_ = now, !.stopCollection_ = TRUE]

\* processTraceInternal(logger): hands the buffers to the logger
processTraceInternal(ap) == ap

\* resetInternal(): clears the per-trace state
resetInternal(ap) == ap

\* transferCpuTrace(cpuTrace): signals the stop when the iteration target is hit
signalStop(ap, targetReached) ==
    IF targetReached THEN [ap EXCEPT !.stopCollection_ = TRUE] ELSE ap

\* applyNetFilterInternal(name)
applyNetFilterInternal(ap) == ap

\* metadata_[key] = value
setMetadata(metadata_, key, value) ==
    {kv \in metadata_ : kv[1] # key} \cup {<<key, value>>}

\* one 16-bit word
Word == 2^16

\* a pthread_t, 64 bits wide, as its four 16-bit words, the most significant
\* first
pthread_t(w3, w2, w1, w0) == << w3, w2, w1, w0 >>

\* the cast taking the upper 32 bits of the pthread id
int32_tOfUpperBits(pthreadId) ==
    IF pthreadId[1] >= Word \div 2
    THEN (pthreadId[1] - Word) * Word + pthreadId[2]
    ELSE pthreadId[1] * Word + pthreadId[2]

\* (int32_t)pthreadId: the lower 32 bits of the pthread id, read as a two's
\* complement number
int32_t(pthreadId) ==
    IF pthreadId[3] >= Word \div 2
    THEN (pthreadId[3] - Word) * Word + pthreadId[4]
    ELSE pthreadId[3] * Word + pthreadId[4]

\* the pthread ids passed in: 1, 2^32 + 1, 2, 2^31 and 2^48 + 2^31
PthreadIds ==
    { pthread_t(0, 0, 0, 1), pthread_t(0, 1, 0, 1), pthread_t(0, 0, 0, 2),
      pthread_t(0, 0, Word \div 2, 0), pthread_t(1, 0, Word \div 2, 0) }

\* the system thread ids passed in
Tids == {10, 11}

\* the record of a recordThreadInfo call
ThreadInfoCall(tid, pthreadId) ==
    [op |-> "recordThreadInfo", tid |-> tid, pthreadId |-> pthreadId]

\* threadInfo_.emplace(pthreadId, ThreadInfo(tid, ...)) unless the key is there
emplaceThreadInfo(threadInfo_, pthreadId, tid) ==
    IF \E e \in threadInfo_ : e[1] = pthreadId
    THEN threadInfo_
    ELSE threadInfo_ \cup {<<pthreadId, tid>>}

\* performRunLoopStep with the elapsed-time test ignored while collecting
advanceOnStopOnly(ap, now) ==
    CASE ap.currentRunloopState_ = "Warmup" /\ now >= ap.profileStartTime_ ->
            [ap EXCEPT !.currentRunloopState_ = "CollectTrace"]
      [] ap.currentRunloopState_ = "CollectTrace" /\ ap.stopCollection_ ->
            [ap EXCEPT !.currentRunloopState_ = "ProcessTrace"]
      [] ap.currentRunloopState_ = "ProcessTrace" ->
            [ap EXCEPT !.currentRunloopState_ = "WaitForRequest"]
      [] OTHER -> ap

\* performRunLoopStep with a stop request honoured during the warm-up too
advanceStopAnywhere(ap, now) ==
    CASE ap.currentRunloopState_ = "Warmup" /\ ap.stopCollection_ ->
            [ap EXCEPT !.currentRunloopState_ = "ProcessTrace"]
      [] ap.currentRunloopState_ = "Warmup" /\ now >= ap.profileStartTime_ ->
            [ap EXCEPT !.currentRunloopState_ = "CollectTrace"]
      [] ap.currentRunloopState_ = "CollectTrace"
           /\ (now >= ap.profileEndTime_ \/ ap.stopCollection_) ->
            [ap EXCEPT !.currentRunloopState_ = "ProcessTrace"]
      [] ap.currentRunloopState_ = "ProcessTrace" ->
            [ap EXCEPT !.currentRunloopState_ = "WaitForRequest"]
      [] OTHER -> ap

\* performRunLoopStep(now, nextWakeupTime): advances the state machine on the
\* time elapsed against profileStartTime_ and profileEndTime_, and on a stop
\* request while collecting
advance(ap, now) ==
    CASE ap.currentRunloopState_ = "Warmup" /\ now >= ap.profileStartTime_ ->
            [ap EXCEPT !.currentRunloopState_ = "CollectTrace"]
      [] ap.currentRunloopState_ = "CollectTrace"
           /\ (now >= ap.profileEndTime_ \/ ap.stopCollection_) ->
            [ap EXCEPT !.currentRunloopState_ = "ProcessTrace"]
      [] ap.currentRunloopState_ = "ProcessTrace" ->
            [ap EXCEPT !.currentRunloopState_ = "WaitForRequest"]
      [] OTHER -> ap

\* no isActive() call made yet
NoStateQuery == [called |-> FALSE, by |-> NoThread, result |-> FALSE, holder |-> NoThread]

\* isActive() answering for the collecting state only
isActiveWhileCollecting(ap) == ap.currentRunloopState_ = "CollectTrace"

\* ActivityProfiler::isActive(): currentRunloopState_ != WaitForRequest
isActive(ap) == ap.currentRunloopState_ # "WaitForRequest"

(***************************************************************************)
(* The per-trace data of the ActivityProfiler: ExternalEventMap,           *)
(* GpuUserEventMap, the trace spans and the maps that refer to them.       *)
(***************************************************************************)

\* external correlation ids (uint64_t external_id)
ExternalIds == 1..2

\* Cuda correlation ids (uint32_t cuda_id)
CudaIds == 1..2

\* no entry under a key of a correlation map
NoId == 0

\* enum CorrelationFlowType
CorrelationFlowType == {"Default", "User"}

\* a CPU-side activity, by its name and its own external correlation id
CpuActivity(name, correlationId) == [name |-> name, correlationId |-> correlationId]

\* no entry under a key of events_; what a failed lookup yields
NoActivity == CpuActivity("", NoId)

\* the CPU-side activities handed to insertEvent, one per external id
CpuActivities == { CpuActivity("op1", 1), CpuActivity("op2", 2) }

\* ExternalEventMap after construction, and after clear()
ExternalEventMap ==
    [events_                |-> [e \in ExternalIds |-> NoActivity],
     defaultCorrelationMap_ |-> [c \in CudaIds |-> NoId],
     userCorrelationMap_    |-> [c \in CudaIds |-> NoId]]

\* getCorrelationMap with one map for both flow types
getCorrelationMapShared(flowType) == "defaultCorrelationMap_"

\* ExternalEventMap::getCorrelationMap(flowType): the member it refers to
getCorrelationMap(flowType) ==
    IF flowType = "User" THEN "userCorrelationMap_" ELSE "defaultCorrelationMap_"

\* ExternalEventMap::getGenericTraceActivity(correlation_id, flowType)
getGenericTraceActivity(ee, correlation_id, flowType) ==
    LET external_id == ee[getCorrelationMap(flowType)][correlation_id] IN
    IF external_id = NoId THEN NoActivity ELSE ee.events_[external_id]

\* ExternalEventMap::insertEvent(op)
insertEvent(ee, op) == [ee EXCEPT !.events_[op.correlationId] = op]

\* ExternalEventMap::addCorrelation(external_id, cuda_id, flowType)
addCorrelation(ee, external_id, cuda_id, flowType) ==
    [ee EXCEPT ![getCorrelationMap(flowType)][cuda_id] = external_id]

\* StreamKey: device id and stream
StreamKeys == { <<0, 2>>, <<1, 1>> }

\* correlation ids of the user events GPU spans are kept under
SpanCorrelationIds == 1..2

\* a span by its bounds
Span(startTime, endTime) == [startTime |-> startTime, endTime |-> endTime]

\* no span under a key of a CorrelationSpanMap
NoSpan == Span(0, 0)

\* GpuUserEventMap after construction, and after clear()
GpuUserEventMap ==
    [streamSpanMap |-> [k \in StreamKeys |-> [c \in SpanCorrelationIds |-> NoSpan]]]

\* a GPU activity: where it ran and when
GpuActivity(deviceId, resourceId, startTime, endTime) ==
    [deviceId |-> deviceId, resourceId |-> resourceId,
     startTime |-> startTime, endTime |-> endTime]

\* the GPU activities the hardware reports
GpuActivities ==
    { g \in { GpuActivity(k[1], k[2], t1, t2) :
                k \in StreamKeys, t1 \in 1..MaxGpuTime, t2 \in 1..MaxGpuTime } :
        g.startTime <= g.endTime }

Min(a, b) == IF a <= b THEN a ELSE b

Max(a, b) == IF a >= b THEN a ELSE b

\* insertOrExtendEvent moving only the end of a span that exists
insertOrExtendEventEndOnly(gm, cpuTraceActivity, gpuTraceActivity) ==
    LET key == << gpuTraceActivity.deviceId, gpuTraceActivity.resourceId >>
        id == cpuTraceActivity.correlationId
        span == gm.streamSpanMap[key][id] IN
    [gm EXCEPT !.streamSpanMap[key][id] =
        IF span = NoSpan
        THEN Span(gpuTraceActivity.startTime, gpuTraceActivity.endTime)
        ELSE Span(span.startTime, Max(span.endTime, gpuTraceActivity.endTime))]

\* GpuUserEventMap::insertOrExtendEvent(cpuTraceActivity, gpuTraceActivity):
\* a new span over the GPU activity, or the span there is, updated to include it
insertOrExtendEvent(gm, cpuTraceActivity, gpuTraceActivity) ==
    LET key == << gpuTraceActivity.deviceId, gpuTraceActivity.resourceId >>
        id == cpuTraceActivity.correlationId
        span == gm.streamSpanMap[key][id] IN
    [gm EXCEPT !.streamSpanMap[key][id] =
        IF span = NoSpan
        THEN Span(gpuTraceActivity.startTime, gpuTraceActivity.endTime)
        ELSE Span(Min(span.startTime, gpuTraceActivity.startTime),
                  Max(span.endTime, gpuTraceActivity.endTime))]

\* a synthesized span as the logger receives it
GpuSpanActivity(key, id, span) ==
    [deviceId |-> key[1], resourceId |-> key[2], correlationId |-> id,
     startTime |-> span.startTime, endTime |-> span.endTime]

\* the spans held in streamSpanMap
SynthesizedSpans(gm) ==
    { GpuSpanActivity(k, c, gm.streamSpanMap[k][c]) :
        << k, c >> \in { kc \in StreamKeys \X SpanCorrelationIds :
                            gm.streamSpanMap[kc[1]][kc[2]] # NoSpan } }

\* stream keys ordered by stream before device
StreamKeyLessByStream(k1, k2) ==
    k1[2] < k2[2] \/ (k1[2] = k2[2] /\ k1[1] < k2[1])

\* operator< of std::pair<int64_t, int64_t>, the order of std::map<StreamKey, ...>
StreamKeyLess(k1, k2) ==
    k1[1] < k2[1] \/ (k1[1] = k2[1] /\ k1[2] < k2[2])

\* GpuUserEventMap::logEvents(logger): what the logger can receive. The outer
\* std::map is walked in key order, each std::unordered_map in an order the
\* container does not specify
logEvents(gm) ==
    LET spans == SynthesizedSpans(gm)
        n == Cardinality(spans) IN
    { order \in [1..n -> spans] :
        /\ \A i, j \in 1..n : i # j => order[i] # order[j]
        /\ \A i, j \in 1..n :
              i < j => ~StreamKeyLess(<< order[j].deviceId, order[j].resourceId >>,
                                      << order[i].deviceId, order[i].resourceId >>) }

\* names of the nets (trace spans) the application produces CPU traces for
NetNames == {"net1", "net2"}

\* a CpuTraceBuffer: the span's name, its GPU op count and its activities
CpuTraceBuffer(name, gpuOpCount, activities) ==
    [name |-> name, gpuOpCount |-> gpuOpCount, activities |-> activities]

\* the CPU traces handed to transferCpuTrace: one iteration of net1 with its
\* operator op1, or one of net2 with its operator op2
CpuTraceBuffers ==
    { CpuTraceBuffer("net1", gpuOpCount, {CpuActivity("op1", 1)}) : gpuOpCount \in -1..1 }
        \cup
    { CpuTraceBuffer("net2", gpuOpCount, {CpuActivity("op2", 2)}) : gpuOpCount \in -1..1 }

\* a CpuGpuSpanPair of traceSpans_, by its name and its place in the list
SpanPairRef(name, iteration) == [name |-> name, iteration |-> iteration]

\* no entry under a key of clientActivityTraceMap_
NoSpanPair == SpanPairRef("", 0)

\* struct profilerOverhead, zeroed
NoOverhead == [overhead |-> 0, cntr |-> 0]

\* the window filters a configuration carries
Filters(netNameFilter, netGpuOpCountThreshold) ==
    [netNameFilter |-> netNameFilter, netGpuOpCountThreshold |-> netGpuOpCountThreshold]

\* the configurations handed to configure
FilterConfigs ==
    { Filters(f, n) : f \in { {}, {"net1"} }, n \in 0..1 }

\* passesGpuOpCountThreshold that lets a buffer at the threshold fail
passesGpuOpCountThresholdStrict(td, cpuTrace) ==
    td.cpuOnly_ \/ cpuTrace.gpuOpCount < 0
        \/ cpuTrace.gpuOpCount > td.netGpuOpCountThreshold_

\* ActivityProfiler::passesGpuOpCountThreshold(cpuTrace)
passesGpuOpCountThreshold(td, cpuTrace) ==
    td.cpuOnly_ \/ cpuTrace.gpuOpCount < 0
        \/ cpuTrace.gpuOpCount >= td.netGpuOpCountThreshold_

\* applyNetFilterInternal(name): no filter, or the name contains one of the
\* filter's substrings
passesNetFilter(td, name) ==
    td.netNameFilter_ = {} \/ name \in td.netNameFilter_

\* recordTraceSpan(span, gpuOpCount): a new CpuGpuSpanPair at the end of the
\* list of its name; yields the per-trace data and the reference to the pair
recordTraceSpan(td, name, gpuOpCount) ==
    [td EXCEPT !.traceSpans_[name] = Append(@, gpuOpCount)]

\* transferCpuTrace(cpuTrace), the admission and what an admitted buffer
\* leaves behind: a span pair, the buffer, and per activity an entry in the
\* client-activity map and in the external-id mapping
admitCpuTrace(td, cpuTrace) ==
    IF ~passesNetFilter(td, cpuTrace.name) \/ ~passesGpuOpCountThreshold(td, cpuTrace)
    THEN td
    ELSE LET recorded == recordTraceSpan(td, cpuTrace.name, cpuTrace.gpuOpCount)
             pair == SpanPairRef(cpuTrace.name, Len(recorded.traceSpans_[cpuTrace.name]))
             op == CHOOSE a \in cpuTrace.activities : TRUE IN
         [recorded EXCEPT
             !.traceBuffers_ = Append(@, cpuTrace),
             !.clientActivityTraceMap_[op.correlationId] = pair,
             !.externalEvents_ = insertEvent(@, op)]

\* ActivityProfiler::addOverheadSample(counter, overhead)
addOverheadSample(counter, overhead) ==
    [overhead |-> counter.overhead + overhead, cntr |-> counter.cntr + 1]

\* the absolute value of an int64_t
Abs(a) == IF a < 0 THEN 0 - a ELSE a

\* a / b of two integers in C++: the quotient truncated towards zero
Quotient(a, b) ==
    IF (a < 0) = (b < 0) THEN Abs(a) \div Abs(b) ELSE 0 - (Abs(a) \div Abs(b))

\* getOverhead without the division
getOverheadTotal(counter) ==
    IF counter.cntr = 0 THEN 0 ELSE counter.overhead

\* ActivityProfiler::getOverhead(counter)
getOverhead(counter) ==
    IF counter.cntr = 0 THEN 0 ELSE Quotient(counter.overhead, counter.cntr)

\* the two overhead counters
OverheadCounters == {"flushOverhead_", "setupOverhead_"}

\* the overhead samples measured
OverheadSamples == {-3, 1, 2}

\* a call of addOverheadSample, as recorded in traceCalls
OverheadCall(counter, overhead) ==
    [op |-> "addOverheadSample", counter |-> counter, overhead |-> overhead]

\* the per-trace members as the constructor leaves them
TraceData ==
    [externalEvents_         |-> ExternalEventMap,
     gpuUserEventMap_        |-> GpuUserEventMap,
     traceSpans_             |-> [name \in NetNames |-> << >>],
     clientActivityTraceMap_ |-> [id \in ExternalIds |-> NoSpanPair],
     disabledTraceSpans_     |-> {},
     traceBuffers_           |-> << >>,
     flushOverhead_          |-> NoOverhead,
     setupOverhead_          |-> NoOverhead,
     cpuOnly_                |-> FALSE,
     netNameFilter_          |-> {},
     netGpuOpCountThreshold_ |-> 0]

\* loggingDisabled that takes every activity of a recorded span as disabled
loggingDisabledWhenMapped(td, act) ==
    td.clientActivityTraceMap_[act.correlationId] # NoSpanPair

\* ActivityProfiler::loggingDisabled(act)
loggingDisabled(td, act) ==
    LET it == td.clientActivityTraceMap_[act.correlationId] IN
    it # NoSpanPair /\ it.name \in td.disabledTraceSpans_

\* the members resetTraceData clears, registry and buffers first
ClearOrderRegistryFirst ==
    << "traceSpans_", "traceBuffers_", "externalEvents_", "gpuUserEventMap_",
       "clientActivityTraceMap_", "disabledTraceSpans_", "flushOverhead_", "setupOverhead_" >>

\* the members resetTraceData clears, in the order it clears them: the
\* correlation index and the synthesizer before the registry and the buffers
ClearOrder ==
    << "externalEvents_", "gpuUserEventMap_", "clientActivityTraceMap_",
       "traceSpans_", "traceBuffers_", "disabledTraceSpans_",
       "flushOverhead_", "setupOverhead_" >>

\* the per-trace data after the first n members of the order were cleared
RECURSIVE clearedUpTo(_, _, _)
clearedUpTo(td, order, n) ==
    IF n = 0 THEN td
    ELSE [clearedUpTo(td, order, n - 1) EXCEPT ![order[n]] = TraceData[order[n]]]

\* resetTraceData that books a setup overhead sample for itself
resetTraceDataSampled(td) ==
    [clearedUpTo(td, ClearOrder, Len(ClearOrder)) EXCEPT
        !.setupOverhead_ = [overhead |-> 0, cntr |-> 1]]

\* ActivityProfiler::resetTraceData()
resetTraceData(td) == clearedUpTo(td, ClearOrder, Len(ClearOrder))

\* the activities of the buffers, buffer by buffer, that are not disabled
RECURSIVE loggedActivitiesOf(_, _)
loggedActivitiesOf(td, buffers) ==
    IF buffers = << >> THEN << >>
    ELSE LET op == CHOOSE a \in Head(buffers).activities : TRUE IN
         (IF loggingDisabled(td, op) THEN << >> ELSE << op >>)
             \o loggedActivitiesOf(td, Tail(buffers))

\* no call made yet on the per-trace members
NoTraceCall == [op |-> "none", args |-> << >>, logged |-> << >>]

\* a call on the per-trace data, as recorded in traceCalls
TraceCall(op, a, b, flowType) == [op |-> op, a |-> a, b |-> b, flowType |-> flowType]

Init ==
    /\ plugin \in
         [interface : { PluginInterface(KINETO_PLUGIN_PROFILER_INTERFACE_UNPADDED_STRUCT_SIZE),
                        PluginInterface(KINETO_PLUGIN_PROFILER_INTERFACE_UNPADDED_STRUCT_SIZE - 8) },
          supported : { MockSupportedActivityTypes, OtherSupportedActivityTypes },
          name      : { "MockPlugin" }]
    /\ handles = {}
    /\ profiler = [constructed |-> FALSE, profiler_ |-> plugin.interface, name_ |-> ""]
    /\ nSessions = 0
    /\ session = [s \in Sessions |-> NoSession]
    /\ builder = [s \in Sessions |-> NoBuilder]
    /\ sink = << >>
    /\ calls = [s \in Sessions |-> NoCalls]
    /\ expected = [s \in Sessions |-> << >>]
    /\ pluginCalled = {}
    /\ lastCall = NoLastCall
    /\ traceBuilder = PluginTraceBuilder(TraceSpan(1, MaxTime, "MockPlugin"))
    /\ tbCall = NoBuilderCall
    /\ nameQuery = NoNameQuery
    /\ activityProfiler = ActivityProfiler
    /\ thread = [t \in Threads |-> Idle]
    /\ clock = 0
    /\ stateQuery = NoStateQuery
    /\ traceData = TraceData
    /\ traceCalls = << >>
    /\ lastTraceCall = NoTraceCall

\* the plugin's own entry points invoked so far, after one more call
Called(out, entry) == IF out.real THEN pluginCalled \cup {entry} ELSE pluginCalled

\* the history of session s after a call with outcome out that passed handle h
AfterCall(s, out, h) ==
    [calls[s] EXCEPT !.failed = @ \/ out.rc # 0,
                     !.foreign = @ \/ (out.real /\ h # calls[s].created)]

\* the record of operation op of session s with outcome out
CallRecord(op, s, out) ==
    [NoLastCall EXCEPT !.op = op, !.s = s, !.rc = out.rc, !.real = out.real,
                       !.handle = session[s].pProfilerHandle_,
                       !.failedBefore = calls[s].failed]

\* PluginProfiler::PluginProfiler
PluginProfilerCtor ==
    /\ ~profiler.constructed
    /\ LET p == validateProfiler(plugin.interface) IN
       \E out \in CallOutcomes(p.profilerQuery) :
         /\ profiler' = [constructed |-> TRUE, profiler_ |-> p,
                         name_ |-> NameAfterQuery(out.rc, plugin.name)]
         /\ pluginCalled' = Called(out, "profilerQuery")
         /\ lastCall' = [NoLastCall EXCEPT !.op = "PluginProfiler", !.rc = out.rc,
                                           !.real = out.real]
    /\ UNCHANGED << beyondAdapter, plugin, handles, nSessions, session, builder, sink, calls, expected >>

\* PluginProfiler::configure, with the PluginProfilerSession constructor it runs
configure(activity_types) ==
    /\ profiler.constructed
    /\ nSessions < MaxSessions
    /\ IF ~configureMakesSession(activity_types)
       THEN /\ lastCall' = [NoLastCall EXCEPT !.op = "configure", !.R = activity_types]
            /\ UNCHANGED << handles, nSessions, session, calls, pluginCalled >>
       ELSE LET s == nSessions + 1 IN
            \E out \in CreateOutcomes(profiler.profiler_.profilerCreate) :
              LET h == HandleAfterCreate(out.rc, out.handle) IN
              /\ nSessions' = s
              /\ session' = [session EXCEPT ![s] =
                    [NoSession EXCEPT !.state = "live",
                                      !.profiler_ = profiler.profiler_,
                                      !.name_ = profiler.name_,
                                      !.pProfilerHandle_ = h]]
              /\ handles' = IF out.rc = 0 /\ out.real THEN handles \cup {out.handle} ELSE handles
              /\ calls' = [calls EXCEPT ![s] =
                    [NoCalls EXCEPT !.create = 1,
                                    !.created = IF out.rc = 0 THEN out.handle ELSE NullHandle,
                                    !.createFailed = (out.rc # 0),
                                    !.failed = (out.rc # 0)]]
              /\ pluginCalled' = Called(out, "profilerCreate")
              /\ lastCall' = [NoLastCall EXCEPT !.op = "configure", !.s = s,
                                                !.R = activity_types, !.result = s,
                                                !.rc = out.rc, !.real = out.real,
                                                !.handle = h]
    /\ UNCHANGED << beyondAdapter, plugin, profiler, builder, sink, expected >>

\* a destructor that never releases the handle
destructorLeaksHandle(pProfilerHandle) == FALSE

\* PluginProfilerSession::~PluginProfilerSession, lines 38-40
destructorCallsDestroy(pProfilerHandle) == pProfilerHandle # NullHandle

\* PluginProfilerSession::~PluginProfilerSession
SessionDtor(s) ==
    /\ session[s].state = "live"
    /\ ~builder[s].live
    /\ LET h == session[s].pProfilerHandle_ IN
       \E out \in IF destructorCallsDestroy(h)
                   THEN CallOutcomes(session[s].profiler_.profilerDestroy)
                   ELSE {NoCall} :
         /\ session' = [session EXCEPT ![s] = [NoSession EXCEPT !.state = "destroyed"]]
         /\ handles' = IF out.real THEN handles \ {h} ELSE handles
         /\ calls' = [calls EXCEPT ![s] =
               [NoCalls EXCEPT
                  !.create = calls[s].create,
                  !.created = calls[s].created,
                  !.createFailed = calls[s].createFailed,
                  !.destroy = IF destructorCallsDestroy(h) THEN 1 ELSE 0,
                  !.destroyed = IF destructorCallsDestroy(h) THEN h ELSE NullHandle,
                  !.foreign = calls[s].foreign \/ (out.real /\ h # calls[s].created)]]
         /\ pluginCalled' = Called(out, "profilerDestroy")
         /\ lastCall' = CallRecord("~PluginProfilerSession", s, out)
    /\ UNCHANGED << beyondAdapter, plugin, profiler, nSessions, builder, sink, expected >>

\* start taking the timestamp only after the null-handle check
startTimestampAfterNullCheck(sess, now) ==
    IF sess.pProfilerHandle_ = NullHandle THEN sess.lastStartTimestampUtcNs_ ELSE now

\* PluginProfilerSession::start, lines 55-58: the timestamp is taken first
startTimestamp(sess, now) == now

\* PluginProfilerSession::start, lines 60-62
startCallsPlugin(pProfilerHandle) == pProfilerHandle # NullHandle

\* PluginProfilerSession::start, the clock reading now
start(s, now) ==
    /\ session[s].state = "live"
    /\ ~builder[s].live
    /\ LET h == session[s].pProfilerHandle_ IN
       \E out \in IF startCallsPlugin(h)
                   THEN CallOutcomes(session[s].profiler_.profilerStart)
                   ELSE {NoCall} :
         /\ session' = [session EXCEPT
               ![s].lastStartTimestampUtcNs_ = startTimestamp(session[s], now)]
         /\ calls' = [calls EXCEPT ![s] = [AfterCall(s, out, h) EXCEPT !.startNow = now]]
         /\ pluginCalled' = Called(out, "profilerStart")
         /\ lastCall' = CallRecord("start", s, out)
    /\ UNCHANGED << beyondAdapter, plugin, handles, profiler, nSessions, builder, sink, expected >>

\* PluginProfilerSession::stop, lines 77-80: the timestamp is taken first
stopTimestamp(sess, now) == now

\* stop giving up once the session has seen a failure: it never forwards
stopNeverForwards(pProfilerHandle) == FALSE

\* PluginProfilerSession::stop, lines 82-84
stopCallsPlugin(pProfilerHandle) == pProfilerHandle # NullHandle

\* PluginProfilerSession::stop, the clock reading now
stop(s, now) ==
    /\ session[s].state = "live"
    /\ ~builder[s].live
    /\ LET h == session[s].pProfilerHandle_ IN
       \E out \in IF stopCallsPlugin(h)
                   THEN CallOutcomes(session[s].profiler_.profilerStop)
                   ELSE {NoCall} :
         /\ session' = [session EXCEPT
               ![s].lastStopTimestampUtcNs_ = stopTimestamp(session[s], now)]
         /\ calls' = [calls EXCEPT ![s] = [AfterCall(s, out, h) EXCEPT !.stopNow = now]]
         /\ pluginCalled' = Called(out, "profilerStop")
         /\ lastCall' = CallRecord("stop", s, out)
    /\ UNCHANGED << beyondAdapter, plugin, handles, profiler, nSessions, builder, sink, expected >>

\* PluginProfilerSession::processTrace, lines 104-106
processTraceCallsPlugin(pProfilerHandle) == pProfilerHandle # NullHandle

\* PluginProfilerSession::processTrace, lines 108-109: the span of the trace
processTraceSpan(sess) ==
    TraceSpan(sess.lastStartTimestampUtcNs_, sess.lastStopTimestampUtcNs_, sess.name_)

\* the logging loop run over the buffer twice
loggedTwice(traceBuffer) == traceBuffer.activities \o traceBuffer.activities

\* PluginProfilerSession::processTrace, lines 132-139: what the logger gets
loggedActivities(traceBuffer) == traceBuffer.activities

\* PluginProfilerSession::processTrace, lines 104-120: up to the call of the
\* plugin's process-events entry point; the logger passed in starts empty
processTrace(s) ==
    /\ session[s].state = "live"
    /\ ~builder[s].live
    /\ sink' = << >>
    /\ expected' = [expected EXCEPT ![s] = << >>]
    /\ IF processTraceCallsPlugin(session[s].pProfilerHandle_)
       THEN /\ builder' = [builder EXCEPT ![s] = PluginTraceBuilder(processTraceSpan(session[s]))]
            /\ lastCall' = CallRecord("processTrace", s,
                  [NoCall EXCEPT !.real = (session[s].profiler_.profilerProcessEvents = "plugin")])
            /\ pluginCalled' = IF session[s].profiler_.profilerProcessEvents = "plugin"
                               THEN pluginCalled \cup {"profilerProcessEvents"}
                               ELSE pluginCalled
            /\ calls' = [calls EXCEPT ![s].foreign = @ \/
                  (session[s].profiler_.profilerProcessEvents = "plugin"
                   /\ session[s].pProfilerHandle_ # calls[s].created)]
       ELSE /\ lastCall' = CallRecord("processTrace", s, NoCall)
            /\ UNCHANGED << builder, pluginCalled, calls >>
    /\ UNCHANGED << beyondAdapter, plugin, handles, profiler, nSessions, session >>

\* the plugin, inside its process-events call, calls the builder's addEvent
cAddEvent(s, pProfileEvent) ==
    /\ builder[s].live
    /\ session[s].profiler_.profilerProcessEvents = "plugin"
    /\ Len(builder[s].buffer_.activities) < MaxEvents
    /\ LET r == addEvent(builder[s], pProfileEvent) IN
       /\ builder' = [builder EXCEPT ![s] = r.b]
       /\ expected' = [expected EXCEPT ![s] =
             IF r.rc = 0 THEN Append(@, [event |-> pProfileEvent, name |-> ""]) ELSE @]
    /\ UNCHANGED << beyondAdapter, plugin, handles, profiler, nSessions, session, sink, calls,
                    pluginCalled, lastCall >>

\* the plugin, inside its process-events call, calls setLastEventName
cSetLastEventName(s, pName) ==
    /\ builder[s].live
    /\ session[s].profiler_.profilerProcessEvents = "plugin"
    /\ LET r == setLastEventName(builder[s], pName) IN
       /\ builder' = [builder EXCEPT ![s] = r.b]
       /\ expected' = [expected EXCEPT ![s] =
             IF r.rc = 0 /\ @ # << >> THEN [@ EXCEPT ![Len(@)].name = pName] ELSE @]
    /\ UNCHANGED << beyondAdapter, plugin, handles, profiler, nSessions, session, sink, calls,
                    pluginCalled, lastCall >>

\* processTrace giving up on the builder's buffer when the plugin failed
takesBufferOnSuccessOnly(errorCode) == errorCode = 0

\* PluginProfilerSession::processTrace, lines 121-128: a non-zero result is
\* logged and the function goes on to take the buffer
takesBufferAfter(errorCode) == TRUE

\* PluginProfilerSession::processTrace, lines 119-141: the process-events
\* entry point returns; the buffer is taken from the builder and logged
processTraceReturn(s) ==
    /\ builder[s].live
    /\ \E out \in CallOutcomes(session[s].profiler_.profilerProcessEvents) :
       LET taken == IF takesBufferAfter(out.rc) THEN getTraceBuffer(builder[s])
                    ELSE [buffer |-> NullBuffer, b |-> builder[s]] IN
       /\ session' = [session EXCEPT ![s].traceBuffer_ = taken.buffer]
       /\ sink' = sink \o loggedActivities(taken.buffer)
       /\ builder' = [builder EXCEPT ![s] = NoBuilder]
       /\ calls' = [calls EXCEPT ![s] =
             [@ EXCEPT !.failed = @ \/ out.rc # 0, !.processed = TRUE, !.released = FALSE,
                       !.delivered = @ \/ loggedActivities(taken.buffer) # << >>]]
       /\ lastCall' = [CallRecord("processTraceReturn", s, out) EXCEPT
                          !.processedBefore = calls[s].processed,
                          !.deliveredBefore = calls[s].delivered]
    /\ UNCHANGED << beyondAdapter, plugin, handles, profiler, nSessions, expected, pluginCalled >>

\* a unique_ptr returned by value from an lvalue that keeps its pointer
moveLeavesSource(ptr) == [moved |-> ptr, left |-> ptr]

\* std::move of a std::unique_ptr<CpuTraceBuffer> member into the returned
\* value: the pointer goes to the caller, the member is left null
move(ptr) == [moved |-> ptr, left |-> NullBuffer]

\* PluginProfilerSession::getTraceBuffer
PluginProfilerSession_getTraceBuffer(s) ==
    /\ session[s].state = "live"
    /\ ~builder[s].live
    /\ LET released == move(session[s].traceBuffer_) IN
       /\ session' = [session EXCEPT ![s].traceBuffer_ = released.left]
       /\ calls' = [calls EXCEPT ![s].released = TRUE]
       /\ lastCall' = [CallRecord("getTraceBuffer", s, NoCall) EXCEPT
                          !.buffer = released.moved,
                          !.processedBefore = calls[s].processed,
                          !.releasedBefore = calls[s].released]
    /\ UNCHANGED << beyondAdapter, plugin, handles, profiler, nSessions, builder, sink,
                    expected, pluginCalled >>

(***************************************************************************)
(* The events and names the plugin passes to the builder.                  *)
(***************************************************************************)
\* MockPlugin::profilerProcessEvents, lines 392-399: runtimeEvent, with its
\* times as offsets from baseTime
RuntimeEvent ==
    [isNull |-> FALSE,
     unpaddedStructSize |-> KINETO_PLUGIN_PROFILE_EVENT_UNPADDED_STRUCT_SIZE,
     eventType |-> "KINETO_PLUGIN_PROFILE_EVENT_TYPE_CUDA_RUNTIME",
     startTimeUtcNs |-> 0, endTimeUtcNs |-> 5000, eventId |-> 1,
     deviceId |-> 0, resourceId |-> 123, threadId |-> 0]

\* an event of a kind code the translation table does not know
UnknownKindEvent ==
    [isNull |-> FALSE,
     unpaddedStructSize |-> KINETO_PLUGIN_PROFILE_EVENT_UNPADDED_STRUCT_SIZE,
     eventType |-> "KINETO_PLUGIN_PROFILE_EVENT_TYPE_99",
     startTimeUtcNs |-> 10000, endTimeUtcNs |-> 15000, eventId |-> 2,
     deviceId |-> 0, resourceId |-> 124, threadId |-> 7]

\* an event whose declared size is only that of its first field
UndersizedEvent == [RuntimeEvent EXCEPT !.unpaddedStructSize = 8]

PluginEvents == {RuntimeEvent, UnknownKindEvent, UndersizedEvent, NullEvent}

PluginNames == {"cudaLaunchKernel", "cuLaunchKernel", NullString}

(***************************************************************************)
(* The PluginTraceBuilder on its own: the calls a plugin can make through  *)
(* the function pointers of toCTraceBuilder, in any order.                 *)
(***************************************************************************)
\* where each field of KinetoPlugin_ProfileEvent ends
ProfileEventFieldEnd ==
    [unpaddedStructSize |-> 8, eventType |-> 12, startTimeUtcNs |-> 24,
     endTimeUtcNs |-> 32, eventId |-> 40, deviceId |-> 44, resourceId |-> 48,
     threadId |-> 52]

\* an event of a plugin built against a shorter KinetoPlugin_ProfileEvent: it
\* ends after endTimeUtcNs and declares so
ShortEvent ==
    [isNull |-> FALSE, unpaddedStructSize |-> ProfileEventFieldEnd.endTimeUtcNs,
     eventType |-> "KINETO_PLUGIN_PROFILE_EVENT_TYPE_CUDA_DRIVER",
     startTimeUtcNs |-> 20000, endTimeUtcNs |-> 50000,
     eventId |-> 0, deviceId |-> 0, resourceId |-> 0, threadId |-> 0]

\* what a read past the end of the plugin's struct may yield
Garbage == {0, 77}

\* the event as a reader of all its fields sees it: the fields that lie past
\* the size the plugin declared are not the plugin's
EventAsRead(pProfileEvent, g) ==
    IF pProfileEvent.isNull THEN pProfileEvent
    ELSE [f \in DOMAIN pProfileEvent |->
            IF f \in DOMAIN ProfileEventFieldEnd
               /\ ProfileEventFieldEnd[f] > pProfileEvent.unpaddedStructSize
               /\ pProfileEvent.unpaddedStructSize >= ProfileEventFieldEnd.unpaddedStructSize
            THEN g ELSE pProfileEvent[f]]

\* a well-formed event of a given wire code
EventOfKind(code) == [RuntimeEvent EXCEPT !.eventType = code]

\* every event-kind code of the interface, and one it does not have
WireCodes ==
    { "KINETO_PLUGIN_PROFILE_EVENT_TYPE_" \o k : k \in ActivityType \ {"CUDA_PROFILER_RANGE"} }
    \cup { KINETO_PLUGIN_PROFILE_EVENT_TYPE_INVALID, UnknownKindEvent.eventType }

BuilderEvents == {RuntimeEvent, UnknownKindEvent, ShortEvent, UndersizedEvent, NullEvent}

\* a null const KinetoPlugin_ProfileEventFlow*
NullFlow ==
    [isNull |-> TRUE, unpaddedStructSize |-> 0, flowType |-> "", flowId |-> 0,
     isStartPoint |-> FALSE]

FwdBwdFlow ==
    [isNull |-> FALSE,
     unpaddedStructSize |-> KINETO_PLUGIN_PROFILE_EVENT_FLOW_UNPADDED_STRUCT_SIZE,
     flowType |-> "KINETO_PLUGIN_PROFILE_EVENT_FLOW_TYPE_FWD_BWD", flowId |-> 5,
     isStartPoint |-> TRUE]

AsyncFlow ==
    [FwdBwdFlow EXCEPT !.flowType = "KINETO_PLUGIN_PROFILE_EVENT_FLOW_TYPE_ASYNC_CPU_GPU",
                       !.isStartPoint = FALSE]

UnknownKindFlow ==
    [FwdBwdFlow EXCEPT !.flowType = "KINETO_PLUGIN_PROFILE_EVENT_FLOW_TYPE_42",
                       !.flowId = 6]

UndersizedFlow ==
    [FwdBwdFlow EXCEPT !.unpaddedStructSize =
                          KINETO_PLUGIN_PROFILE_EVENT_FLOW_UNPADDED_STRUCT_SIZE - 1]

BuilderFlows == {FwdBwdFlow, AsyncFlow, UnknownKindFlow, UndersizedFlow, NullFlow}

BuilderMetadata == { << "stream", "7" >>, << NullString, "7" >>, << "stream", NullString >> }

\* a null const KinetoPlugin_ProfileResourceInfo*
NullResourceInfo ==
    [isNull |-> TRUE, unpaddedStructSize |-> 0, deviceId |-> 0, resourceId |-> 0,
     displayOrder |-> 0, pName |-> NullString]

NamedResourceInfo ==
    [isNull |-> FALSE,
     unpaddedStructSize |-> KINETO_PLUGIN_PROFILE_RESOURCE_INFO_UNPADDED_STRUCT_SIZE,
     deviceId |-> 0, resourceId |-> 123, displayOrder |-> 1, pName |-> "stream 123"]

UnnamedResourceInfo == [NamedResourceInfo EXCEPT !.pName = NullString]

UndersizedResourceInfo ==
    [NamedResourceInfo EXCEPT !.unpaddedStructSize =
                                 KINETO_PLUGIN_PROFILE_RESOURCE_INFO_UNPADDED_STRUCT_SIZE - 8]

BuilderResourceInfos ==
    {NamedResourceInfo, UnnamedResourceInfo, UndersizedResourceInfo, NullResourceInfo}

\* the record of a call on the builder
BuilderCall(op, rc, nullArg, size, read, kind) ==
    [op |-> op, n |-> tbCall.n + 1, rc |-> rc, nullArg |-> nullArg, size |-> size,
     read |-> read, kind |-> kind]

\* PluginTraceBuilder::cAddEvent
callAddEvent(pProfileEvent) ==
    /\ tbCall.n < MaxBuilderCalls
    /\ \E g \in Garbage :
         LET r == addEvent(traceBuilder, EventAsRead(pProfileEvent, g)) IN
         /\ traceBuilder' = r.b
         /\ tbCall' = BuilderCall("addEvent", r.rc, pProfileEvent.isNull,
                                  pProfileEvent.unpaddedStructSize,
                                  addEventReads(traceBuilder, pProfileEvent),
                                  pProfileEvent.eventType)
    /\ UNCHANGED beyondBuilder

\* PluginTraceBuilder::cSetLastEventName
callSetLastEventName(pName) ==
    /\ tbCall.n < MaxBuilderCalls
    /\ LET r == setLastEventName(traceBuilder, pName) IN
         /\ traceBuilder' = r.b
         /\ tbCall' = BuilderCall("setLastEventName", r.rc, pName = NullString, 0, {}, "")
    /\ UNCHANGED beyondBuilder

\* PluginTraceBuilder::cSetLastEventFlow
callSetLastEventFlow(pProfileEventFlow) ==
    /\ tbCall.n < MaxBuilderCalls
    /\ LET r == setLastEventFlow(traceBuilder, pProfileEventFlow) IN
         /\ traceBuilder' = r.b
         /\ tbCall' = BuilderCall("setLastEventFlow", r.rc, pProfileEventFlow.isNull,
                                  pProfileEventFlow.unpaddedStructSize,
                                  setLastEventFlowReads(traceBuilder, pProfileEventFlow),
                                  pProfileEventFlow.flowType)
    /\ UNCHANGED beyondBuilder

\* PluginTraceBuilder::cAddLastEventMetadata
callAddLastEventMetadata(pKey, pValue) ==
    /\ tbCall.n < MaxBuilderCalls
    /\ LET r == addLastEventMetadata(traceBuilder, pKey, pValue) IN
         /\ traceBuilder' = r.b
         /\ tbCall' = BuilderCall("addLastEventMetadata", r.rc,
                                  pKey = NullString \/ pValue = NullString, 0, {}, "")
    /\ UNCHANGED beyondBuilder

\* PluginTraceBuilder::cAddResourceInfo
callAddResourceInfo(pProfileResourceInfo) ==
    /\ tbCall.n < MaxBuilderCalls
    /\ LET r == addResourceInfo(traceBuilder, pProfileResourceInfo) IN
         /\ traceBuilder' = r.b
         /\ tbCall' = BuilderCall("addResourceInfo", r.rc, pProfileResourceInfo.isNull,
                                  pProfileResourceInfo.unpaddedStructSize,
                                  addResourceInfoReads(traceBuilder, pProfileResourceInfo),
                                  "")
    /\ UNCHANGED beyondBuilder

\* PluginTraceBuilder::getTraceBuffer, called on the builder driven directly
callGetTraceBuffer ==
    /\ tbCall.n < MaxBuilderCalls
    /\ traceBuilder' = getTraceBuffer(traceBuilder).b
    /\ tbCall' = BuilderCall("getTraceBuffer", 0, FALSE, 0, {}, "")
    /\ UNCHANGED beyondBuilder

(***************************************************************************)
(* Specifications.                                                         *)
(*   Spec          one session, its operations in any order, every clock   *)
(*                 reading; the plugin's process-events call adds nothing  *)
(*   SpecSessions  several sessions of one PluginProfiler, one clock       *)
(*                 reading; a session runs processTrace at most once and   *)
(*                 is not started or stopped after it; the plugin adds     *)
(*                 nothing                                                 *)
(*   SpecTrace     one session that is started, stopped and then processed *)
(*                 any number of times, one clock reading; the plugin adds *)
(*                 events and names them                                   *)
(***************************************************************************)
\* the one request of the specifications that do not vary it
OneRequest == {{"CUDA_RUNTIME", "CPU_OP", "CONCURRENT_KERNEL", "USER_ANNOTATION"}}

Next ==
    \/ PluginProfilerCtor
    \/ nSessions = 0 /\ \E R \in RequestedSets : configure(R)
    \/ SessionDtor(1)
    \/ \E now \in Times : start(1, now)
    \/ \E now \in Times : stop(1, now)
    \/ processTrace(1)
    \/ processTraceReturn(1)

Spec == Init /\ [][Next]_vars

\* session s has not run processTrace
Unprocessed(s) == ~calls[s].processed

NextSessions ==
    \/ PluginProfilerCtor
    \/ \E R \in OneRequest : configure(R)
    \/ \E s \in Sessions : SessionDtor(s)
    \/ \E s \in Sessions, now \in OneTime : Unprocessed(s) /\ start(s, now)
    \/ \E s \in Sessions, now \in OneTime : Unprocessed(s) /\ stop(s, now)
    \/ \E s \in Sessions : Unprocessed(s) /\ processTrace(s)
    \/ \E s \in Sessions : processTraceReturn(s)

\* the test's plugin: MockPlugin::getInterface and MockPlugin::profilerQuery
InitMock ==
    /\ Init
    /\ plugin.interface.unpaddedStructSize = KINETO_PLUGIN_PROFILER_INTERFACE_UNPADDED_STRUCT_SIZE
    /\ plugin.supported = MockSupportedActivityTypes

SpecSessions == InitMock /\ [][NextSessions]_vars

\* session s was started and stopped
StartedAndStopped(s) ==
    session[s].lastStartTimestampUtcNs_ # 0 /\ session[s].lastStopTimestampUtcNs_ # 0

NextTrace ==
    \/ PluginProfilerCtor
    \/ nSessions = 0 /\ \E R \in OneRequest : configure(R)
    \/ SessionDtor(1)
    \/ \E now \in OneTime : session[1].lastStartTimestampUtcNs_ = 0 /\ start(1, now)
    \/ \E now \in OneTime : session[1].lastStartTimestampUtcNs_ # 0
                            /\ session[1].lastStopTimestampUtcNs_ = 0 /\ stop(1, now)
    \/ StartedAndStopped(1) /\ processTrace(1)
    \/ \E e \in PluginEvents : cAddEvent(1, e)
    \/ \E n \in PluginNames : cSetLastEventName(1, n)
    \/ processTraceReturn(1)

SpecTrace == InitMock /\ [][NextTrace]_vars

\* the same session, whose owner also asks for the trace buffer at any point
\* between the other operations
NextOwnership ==
    \/ NextTrace
    \/ PluginProfilerSession_getTraceBuffer(1)

SpecOwnership == InitMock /\ [][NextOwnership]_vars

\* a plugin calling the builder: events of every wire code go to an empty
\* builder, everything else comes in any order
NextBuilder ==
    \/ \E e \in BuilderEvents : callAddEvent(e)
    \/ \E code \in WireCodes : tbCall.n = 0 /\ callAddEvent(EventOfKind(code))
    \/ \E pName \in {"cudaLaunchKernel", NullString} : callSetLastEventName(pName)
    \/ \E f \in BuilderFlows : callSetLastEventFlow(f)
    \/ \E kv \in BuilderMetadata : callAddLastEventMetadata(kv[1], kv[2])
    \/ \E r \in BuilderResourceInfos : callAddResourceInfo(r)

SpecBuilder == InitMock /\ [][NextBuilder]_vars

\* a plugin calling the builder while its owner releases the buffer at any
\* point, before, between or after the calls
NextRelease ==
    \/ \E e \in {RuntimeEvent, NullEvent} : callAddEvent(e)
    \/ \E pName \in {"cudaLaunchKernel", NullString} : callSetLastEventName(pName)
    \/ \E f \in {FwdBwdFlow, UndersizedFlow} : callSetLastEventFlow(f)
    \/ \E kv \in BuilderMetadata : callAddLastEventMetadata(kv[1], kv[2])
    \/ \E r \in BuilderResourceInfos : callAddResourceInfo(r)
    \/ callGetTraceBuffer

SpecRelease == InitMock /\ [][NextRelease]_vars

\* PluginProfilers constructed over plugins that fill the name buffer in
\* different ways
NextQuery == queryProfilerName \/ destroyProfilerName

SpecQuery == InitMock /\ [][NextQuery]_vars

(***************************************************************************)
(* The ActivityProfiler's entry points, each in three steps: the call, the *)
(* std::lock_guard on mutex_, and the body with the guard's release.       *)
(***************************************************************************)

\* a thread calls an entry point and is about to take mutex_
enter(t, op) ==
    /\ thread[t] = Idle
    /\ thread' = [thread EXCEPT ![t] = [op |-> op, at |-> "lock"]]
    /\ UNCHANGED << activityProfiler, clock, beyondRunloop >>

\* std::lock_guard<std::mutex> guard(mutex_): waits until the mutex is free
lock_guard(t) ==
    /\ thread[t].at = "lock"
    /\ IF holdsMutex(thread[t].op)
       THEN /\ activityProfiler.mutex_ = NoThread
            /\ activityProfiler' = [activityProfiler EXCEPT !.mutex_ = t]
       ELSE UNCHANGED activityProfiler
    /\ thread' = [thread EXCEPT ![t].at = "body"]
    /\ UNCHANGED << clock, beyondRunloop >>

\* the thread is in the body of the entry point
inBody(t, op) == thread[t] = [op |-> op, at |-> "body"]

\* the end of the entry point: the guard goes out of scope
return(t, op, ap) ==
    /\ activityProfiler' = IF holdsMutex(op) THEN [ap EXCEPT !.mutex_ = NoThread] ELSE ap
    /\ thread' = [thread EXCEPT ![t] = Idle]
    /\ UNCHANGED << clock, beyondRunloop >>

\* ActivityProfiler::startTrace(now)
startTrace(t) ==
    /\ inBody(t, "startTrace")
    /\ return(t, "startTrace", startTraceInternal(activityProfiler, clock))

\* ActivityProfiler::stopTrace(now)
stopTrace(t) ==
    /\ inBody(t, "stopTrace")
    /\ return(t, "stopTrace", stopTraceInternal(activityProfiler, clock))

\* ActivityProfiler::processTrace(logger)
ActivityProfiler_processTrace(t) ==
    /\ inBody(t, "processTrace")
    /\ return(t, "processTrace", processTraceInternal(activityProfiler))

\* ActivityProfiler::reset()
reset(t) ==
    /\ inBody(t, "reset")
    /\ return(t, "reset", resetInternal(activityProfiler))

\* ActivityProfiler::configure(config, now)
ActivityProfiler_configure(t) ==
    /\ inBody(t, "configure")
    /\ \E config \in Configs :
         /\ clock + config.warmup + config.duration <= MaxClock
         /\ return(t, "configure", installConfig(activityProfiler, config, clock))

\* ActivityProfiler::transferCpuTrace(cpuTrace)
transferCpuTrace(t) ==
    /\ inBody(t, "transferCpuTrace")
    /\ \E targetReached \in BOOLEAN :
         return(t, "transferCpuTrace", signalStop(activityProfiler, targetReached))

\* ActivityProfiler::applyNetFilter(name)
applyNetFilter(t) ==
    /\ inBody(t, "applyNetFilter")
    /\ return(t, "applyNetFilter", applyNetFilterInternal(activityProfiler))

\* ActivityProfiler::recordThreadInfo(tid, pthreadId)
recordThreadInfo(t) ==
    /\ inBody(t, "recordThreadInfo")
    /\ \E pthreadId \in {pthread_t(0, 0, 0, 1)}, tid \in Tids :
         return(t, "recordThreadInfo",
                [activityProfiler EXCEPT
                    !.threadInfo_ = emplaceThreadInfo(@, int32_t(pthreadId), tid)])

\* ActivityProfiler::addMetadata(key, value)
addMetadata(t) ==
    /\ inBody(t, "addMetadata")
    /\ \E key \in {"k"}, value \in {"v"} :
         return(t, "addMetadata",
                [activityProfiler EXCEPT !.metadata_ = setMetadata(@, key, value)])

\* ActivityProfiler::performRunLoopStep(now, nextWakeupTime)
performRunLoopStep(t) ==
    /\ inBody(t, "performRunLoopStep")
    /\ return(t, "performRunLoopStep", advance(activityProfiler, clock))

\* the system clock advances
tick ==
    /\ clock < MaxClock
    /\ clock' = clock + 1
    /\ UNCHANGED << activityProfiler, thread, beyondRunloop >>

\* the runloop: the control thread steps it while the callers configure,
\* start, stop, process and reset, and hand in CPU traces
NextRunloop ==
    \/ enter(ControlThread, "performRunLoopStep")
    \/ \E t \in CallerThreads, op \in RunloopEntryPoints : enter(t, op)
    \/ \E t \in Threads : lock_guard(t)
    \/ performRunLoopStep(ControlThread)
    \/ \E t \in CallerThreads : ActivityProfiler_configure(t)
    \/ \E t \in CallerThreads : startTrace(t)
    \/ \E t \in CallerThreads : stopTrace(t)
    \/ \E t \in CallerThreads : ActivityProfiler_processTrace(t)
    \/ \E t \in CallerThreads : reset(t)
    \/ \E t \in CallerThreads : transferCpuTrace(t)
    \/ tick

\* a caller thread leaves the entry point it is in
leave(t) ==
    \/ ActivityProfiler_configure(t)
    \/ startTrace(t)
    \/ stopTrace(t)
    \/ ActivityProfiler_processTrace(t)
    \/ reset(t)
    \/ transferCpuTrace(t)

\* the control thread keeps calling performRunLoopStep and gets the mutex when
\* it is free again and again, time advances, and a caller that holds the
\* mutex finishes its bounded work
RunloopFairness ==
    /\ WF_vars(tick)
    /\ WF_vars(enter(ControlThread, "performRunLoopStep"))
    /\ SF_vars(lock_guard(ControlThread))
    /\ WF_vars(performRunLoopStep(ControlThread))
    /\ \A t \in CallerThreads : WF_vars(leave(t))

SpecRunloop == InitMock /\ [][NextRunloop]_vars /\ RunloopFairness

\* the mutex: every synchronous entry point against every other and against
\* the control thread's step, at one reading of the clock
NextMutex ==
    \/ enter(ControlThread, "performRunLoopStep")
    \/ \E t \in CallerThreads, op \in SynchronousEntryPoints : enter(t, op)
    \/ \E t \in Threads : lock_guard(t)
    \/ performRunLoopStep(ControlThread)
    \/ \E t \in CallerThreads : ActivityProfiler_configure(t)
    \/ \E t \in CallerThreads : startTrace(t)
    \/ \E t \in CallerThreads : stopTrace(t)
    \/ \E t \in CallerThreads : ActivityProfiler_processTrace(t)
    \/ \E t \in CallerThreads : reset(t)
    \/ \E t \in CallerThreads : transferCpuTrace(t)
    \/ \E t \in CallerThreads : applyNetFilter(t)
    \/ \E t \in CallerThreads : recordThreadInfo(t)
    \/ \E t \in CallerThreads : addMetadata(t)

SpecMutex == InitMock /\ [][NextMutex]_vars

\* a thread calls isActive(): one read of the atomic state, no lock_guard
callIsActive(t) ==
    /\ thread[t] = Idle
    /\ stateQuery' = [called |-> TRUE, by |-> t, result |-> isActive(activityProfiler),
                      holder |-> activityProfiler.mutex_]
    /\ UNCHANGED beyondStateQuery

\* the state query against the runloop: callers configure, request the stop,
\* reset and ask isActive() while the control thread steps
StateQueryEntryPoints == {"configure", "stopTrace", "reset"}

NextStateQuery ==
    \/ enter(ControlThread, "performRunLoopStep")
    \/ \E t \in CallerThreads, op \in StateQueryEntryPoints : enter(t, op)
    \/ \E t \in Threads : lock_guard(t)
    \/ performRunLoopStep(ControlThread)
    \/ \E t \in CallerThreads : ActivityProfiler_configure(t)
    \/ \E t \in CallerThreads : stopTrace(t)
    \/ \E t \in CallerThreads : reset(t)
    \/ \E t \in CallerThreads : callIsActive(t)

SpecStateQuery == InitMock /\ [][NextStateQuery]_vars

(***************************************************************************)
(* Calls on ExternalEventMap                                               *)
(***************************************************************************)

\* externalEvents_.addCorrelation(external_id, cuda_id, flowType)
callAddCorrelation(external_id, cuda_id, flowType) ==
    /\ Len(traceCalls) < MaxTraceCalls
    /\ traceData' = [traceData EXCEPT
                        !.externalEvents_ = addCorrelation(@, external_id, cuda_id, flowType)]
    /\ traceCalls' = Append(traceCalls,
                            TraceCall("addCorrelation", external_id, cuda_id, flowType))
    /\ UNCHANGED << lastTraceCall, beyondTraceData >>

\* externalEvents_.insertEvent(op)
callInsertEvent(op) ==
    /\ Len(traceCalls) < MaxTraceCalls
    /\ traceData' = [traceData EXCEPT !.externalEvents_ = insertEvent(@, op)]
    /\ traceCalls' = Append(traceCalls, TraceCall("insertEvent", op.correlationId, 0, "Default"))
    /\ UNCHANGED << lastTraceCall, beyondTraceData >>

\* externalEvents_.clear()
ExternalEventMap_clear ==
    /\ Len(traceCalls) < MaxTraceCalls
    /\ traceData' = [traceData EXCEPT !.externalEvents_ = ExternalEventMap]
    /\ traceCalls' = Append(traceCalls, TraceCall("clear", 0, 0, "Default"))
    /\ UNCHANGED << lastTraceCall, beyondTraceData >>

NextCorrelation ==
    \/ \E external_id \in ExternalIds, cuda_id \in CudaIds, flowType \in CorrelationFlowType :
          callAddCorrelation(external_id, cuda_id, flowType)
    \/ \E op \in CpuActivities : callInsertEvent(op)
    \/ ExternalEventMap_clear

SpecCorrelation == InitMock /\ [][NextCorrelation]_vars

(***************************************************************************)
(* Calls on GpuUserEventMap                                                *)
(***************************************************************************)

\* gpuUserEventMap_.insertOrExtendEvent(cpuTraceActivity, gpuTraceActivity)
callInsertOrExtendEvent(cpuTraceActivity, gpuTraceActivity) ==
    /\ traceData' = [traceData EXCEPT
          !.gpuUserEventMap_ = insertOrExtendEvent(@, cpuTraceActivity, gpuTraceActivity)]
    /\ lastTraceCall' = [op |-> "insertOrExtendEvent",
                         args |-> << cpuTraceActivity, gpuTraceActivity >>,
                         logged |-> << >>]
    /\ UNCHANGED << traceCalls, beyondTraceData >>

\* gpuUserEventMap_.clear()
GpuUserEventMap_clear ==
    /\ traceData' = [traceData EXCEPT !.gpuUserEventMap_ = GpuUserEventMap]
    /\ lastTraceCall' = [op |-> "GpuUserEventMap::clear", args |-> << >>, logged |-> << >>]
    /\ UNCHANGED << traceCalls, beyondTraceData >>

\* gpuUserEventMap_.logEvents(logger)
callLogEvents ==
    /\ \E order \in logEvents(traceData.gpuUserEventMap_) :
          lastTraceCall' = [op |-> "logEvents", args |-> << >>, logged |-> order]
    /\ UNCHANGED << traceData, traceCalls, beyondTraceData >>

NextGpuSpans ==
    \/ \E cpuTraceActivity \in CpuActivities, gpuTraceActivity \in GpuActivities :
          callInsertOrExtendEvent(cpuTraceActivity, gpuTraceActivity)
    \/ callLogEvents
    \/ GpuUserEventMap_clear

SpecGpuSpans == InitMock /\ [][NextGpuSpans]_vars

(***************************************************************************)
(* The per-trace data as a whole: construction, configuration, the CPU     *)
(* traces the application hands in, and what is done with them.            *)
(***************************************************************************)

\* ActivityProfiler::ActivityProfiler(cupti, cpuOnly)
constructActivityProfiler(cpuOnly) ==
    /\ lastTraceCall = NoTraceCall
    /\ traceData = TraceData
    /\ traceData' = [traceData EXCEPT !.cpuOnly_ = cpuOnly]
    /\ lastTraceCall' = [op |-> "ActivityProfiler", args |-> << cpuOnly >>, logged |-> << >>]
    /\ UNCHANGED << traceCalls, beyondTraceData >>

\* configure(config, now), as far as the per-trace data goes: the window
\* filters and the overhead counters are reset
configureFilters(config) ==
    /\ traceData.traceBuffers_ = << >>
    /\ traceData' = [traceData EXCEPT
                        !.netNameFilter_ = config.netNameFilter,
                        !.netGpuOpCountThreshold_ = config.netGpuOpCountThreshold,
                        !.flushOverhead_ = NoOverhead,
                        !.setupOverhead_ = NoOverhead]
    /\ lastTraceCall' = [op |-> "configure", args |-> << config >>, logged |-> << >>]
    /\ UNCHANGED << traceCalls, beyondTraceData >>

\* transferCpuTrace(cpuTrace), as far as the per-trace data goes
callTransferCpuTrace(cpuTrace) ==
    /\ Len(traceData.traceBuffers_) < MaxBuffers
    /\ traceData' = admitCpuTrace(traceData, cpuTrace)
    /\ lastTraceCall' = [op |-> "transferCpuTrace", args |-> << cpuTrace >>, logged |-> << >>]
    /\ UNCHANGED << traceCalls, beyondTraceData >>

\* a trace span name is marked disabled
disableTraceSpan(name) ==
    /\ traceData.traceSpans_[name] # << >>
    /\ traceData' = [traceData EXCEPT !.disabledTraceSpans_ = @ \cup {name}]
    /\ lastTraceCall' = [op |-> "disableTraceSpan", args |-> << name >>, logged |-> << >>]
    /\ UNCHANGED << traceCalls, beyondTraceData >>

\* a GPU activity correlated to a recorded CPU activity arrives while the
\* trace is processed
handleGpuActivity(cpuTraceActivity, gpuTraceActivity) ==
    /\ traceData.externalEvents_.events_[cpuTraceActivity.correlationId] = cpuTraceActivity
    /\ callInsertOrExtendEvent(cpuTraceActivity, gpuTraceActivity)

\* processTrace(logger), as far as the per-trace data goes: the activities of
\* the buffers that are not disabled, then the synthesized GPU spans
callProcessTrace ==
    /\ \E spans \in logEvents(traceData.gpuUserEventMap_) :
          lastTraceCall' = [op |-> "processTrace", args |-> << >>,
                            logged |-> loggedActivitiesOf(traceData, traceData.traceBuffers_)
                                          \o spans]
    /\ activityProfiler' = processTraceInternal(activityProfiler)
    /\ UNCHANGED << traceData, traceCalls, thread, clock,
                    adapterVars, builderVars, queryVars, stateQueryVars >>

\* reset(), as far as the per-trace data goes
callReset ==
    /\ traceData' = resetTraceData(traceData)
    /\ lastTraceCall' = [op |-> "reset", args |-> << >>, logged |-> << >>]
    /\ activityProfiler' = resetInternal(activityProfiler)
    /\ UNCHANGED << traceCalls, thread, clock,
                    adapterVars, builderVars, queryVars, stateQueryVars >>

\* the activity buffer is flushed, once while a trace is there, and the time
\* it took is added to the flush overhead
flushActivityBuffer(overhead) ==
    /\ traceData.traceBuffers_ # << >>
    /\ traceData.flushOverhead_ = NoOverhead
    /\ traceData' = [traceData EXCEPT !.flushOverhead_ = addOverheadSample(@, overhead)]
    /\ lastTraceCall' = [op |-> "addOverheadSample", args |-> << "flushOverhead_", overhead >>,
                         logged |-> << >>]
    /\ UNCHANGED << traceCalls, beyondTraceData >>

NextTraceData ==
    \/ flushActivityBuffer(1)
    \/ \E cpuOnly \in BOOLEAN : constructActivityProfiler(cpuOnly)
    \/ \E config \in FilterConfigs : configureFilters(config)
    \/ \E cpuTrace \in CpuTraceBuffers : callTransferCpuTrace(cpuTrace)
    \/ \E name \in NetNames : disableTraceSpan(name)
    \/ \E cpuTraceActivity \in CpuActivities :
          handleGpuActivity(cpuTraceActivity, GpuActivity(0, 2, 1, 1))
    \/ callProcessTrace
    \/ callReset

SpecTraceData == InitMock /\ [][NextTraceData]_vars

(***************************************************************************)
(* The overhead counters on their own                                      *)
(***************************************************************************)

\* addOverheadSample(flushOverhead_, overhead) / (setupOverhead_, overhead)
callAddOverheadSample(counter, overhead) ==
    /\ traceData[counter].cntr < MaxSamples
    /\ traceData' = [traceData EXCEPT ![counter] = addOverheadSample(@, overhead)]
    /\ traceCalls' = Append(traceCalls, OverheadCall(counter, overhead))
    /\ UNCHANGED << lastTraceCall, beyondTraceData >>

NextOverhead ==
    \E counter \in OverheadCounters, overhead \in OverheadSamples :
        callAddOverheadSample(counter, overhead)

SpecOverhead == InitMock /\ [][NextOverhead]_vars

(***************************************************************************)
(* The thread-info cache, recorded into by one call after the other (the   *)
(* calls exclude each other through mutex_).                               *)
(***************************************************************************)
\* ActivityProfiler::recordThreadInfo(tid, pthreadId), as one step
callRecordThreadInfo(tid, pthreadId) ==
    /\ Len(traceCalls) < MaxTraceCalls
    /\ activityProfiler' = [activityProfiler EXCEPT
          !.threadInfo_ = emplaceThreadInfo(@, int32_t(pthreadId), tid)]
    /\ traceCalls' = Append(traceCalls, ThreadInfoCall(tid, pthreadId))
    /\ UNCHANGED << adapterVars, builderVars, queryVars, stateQueryVars, thread, clock,
                    traceData, lastTraceCall >>

NextThreadInfo ==
    \E tid \in Tids, pthreadId \in PthreadIds : callRecordThreadInfo(tid, pthreadId)

SpecThreadInfo == InitMock /\ [][NextThreadInfo]_vars

(***************************************************************************)
(* The two copies of the translation tables, given the same codes.         *)
(***************************************************************************)
\* every flow-kind code of the interface, and one it does not have
FlowCodes == {FwdBwdFlow.flowType, AsyncFlow.flowType, UnknownKindFlow.flowType}

\* an event-kind code translated by the function of PluginUtils.h and by the
\* static function of PluginTraceBuilder
callConvertToActivityType(type) ==
    /\ Len(traceCalls) < MaxTraceCalls
    /\ traceCalls' = Append(traceCalls,
          ConversionCall("convertToActivityType", type,
                         PluginUtils_convertToActivityType(type),
                         convertToActivityType(type)))
    /\ UNCHANGED << traceData, lastTraceCall, beyondTraceData >>

\* a flow-kind code translated by both
callConvertToLinkType(type) ==
    /\ Len(traceCalls) < MaxTraceCalls
    /\ traceCalls' = Append(traceCalls,
          ConversionCall("convertToLinkType", type,
                         PluginUtils_convertToLinkType(type),
                         convertToLinkType(type)))
    /\ UNCHANGED << traceData, lastTraceCall, beyondTraceData >>

NextTables ==
    \/ \E type \in WireCodes : callConvertToActivityType(type)
    \/ \E type \in FlowCodes : callConvertToLinkType(type)

SpecTables == InitMock /\ [][NextTables]_vars

(***************************************************************************)
(* Properties.                                                             *)
(***************************************************************************)
\* the last operation is a configure call
Configured == lastCall.op = "configure"

\* the plugin's interface struct declares less than the adapter's minimum
Undersized ==
    plugin.interface.unpaddedStructSize < KINETO_PLUGIN_PROFILER_INTERFACE_UNPADDED_STRUCT_SIZE

\* C1: configure(R) returns no session, and makes no create call, whenever R
\* shares no kind with the plugin's supported kinds S, R = {} included.
C1_NoSessionWithoutOverlap ==
    Configured /\ lastCall.R \cap DeclaredKinds = {}
        => lastCall.result = 0 /\ ~lastCall.real /\ nSessions = 0

\* C2: configure(R) returns a non-null session whenever R and the plugin's
\* supported kinds S have a kind in common, R a subset of S or not.
C2_SessionOnAnyOverlap ==
    Configured /\ lastCall.R \cap DeclaredKinds # {}
        => lastCall.result # 0 /\ session[lastCall.result].state = "live"

\* C2 witness: a request that only partly overlaps S got a session
C2_Witness ==
    /\ Configured
    /\ lastCall.R \cap DeclaredKinds # {}
    /\ ~(lastCall.R \subseteq DeclaredKinds)
    /\ lastCall.result # 0

\* C3: availableActivities() is exactly the set of kinds the plugin wrote
\* into its supported-kinds array, read up to the first sentinel or the
\* capacity.
C3_AvailableIsDeclared ==
    profiler.constructed => availableActivities = DeclaredKinds

\* C4: every configured session made exactly one create call; a destroyed
\* session whose create succeeded made exactly one destroy call, carrying
\* the handle its own create returned, and no other session made any; no
\* call ever carried a handle other than the session's own; the plugin's
\* live handles are those of the live sessions whose create succeeded, one
\* each.
C4_SessionRaiiPairing ==
    /\ \A s \in Sessions :
         /\ calls[s].create = (IF s <= nSessions THEN 1 ELSE 0)
         /\ ~calls[s].foreign
         /\ session[s].state = "live" =>
               calls[s].destroy = 0 /\ session[s].pProfilerHandle_ = calls[s].created
         /\ session[s].state = "destroyed" =>
               IF calls[s].created # NullHandle
               THEN calls[s].destroy = 1 /\ calls[s].destroyed = calls[s].created
               ELSE calls[s].destroy = 0
    /\ handles = { calls[s].created :
                     s \in {t \in Sessions : session[t].state = "live"
                                             /\ calls[t].created # NullHandle} }
    /\ Cardinality(handles) =
         Cardinality({t \in Sessions : session[t].state = "live"
                                       /\ calls[t].created # NullHandle})

\* C4 witness: one session destroyed although no session was ever started,
\* stopped or processed, another one live, both created successfully
C4_Witness ==
    /\ \E s, t \in Sessions :
         /\ session[s].state = "destroyed" /\ calls[s].destroy = 1
         /\ session[t].state = "live" /\ calls[t].created # NullHandle
    /\ pluginCalled \cap {"profilerStart", "profilerStop", "profilerProcessEvents"} = {}

\* the operations of a live session that may call into the plugin
SessionOps == {"start", "stop", "processTrace"}

\* C5: a session whose create call returned non-zero has a null handle, and
\* its start, stop, processTrace and destructor make no call into the plugin;
\* its processTrace hands nothing to the sink; the destroy entry point is
\* called iff the handle is non-null.
C5_FailedCreateIsNoOp ==
    /\ \A s \in Sessions : calls[s].createFailed =>
         /\ session[s].pProfilerHandle_ = NullHandle
         /\ ~builder[s].live
         /\ calls[s].destroy = 0
         /\ lastCall.s = s /\ lastCall.op \in SessionOps \cup {"~PluginProfilerSession"}
               => ~lastCall.real
         /\ lastCall.s = s /\ lastCall.op = "processTrace" => sink = << >>
    /\ lastCall.op = "~PluginProfilerSession" =>
         (calls[lastCall.s].destroy = 1 <=> lastCall.handle # NullHandle)

\* C5 witness: the plugin's own create failed, the session was started and
\* stopped, and processTrace has just run
C5_Witness ==
    /\ lastCall.op = "processTrace"
    /\ calls[lastCall.s].createFailed
    /\ "profilerCreate" \in pluginCalled
    /\ calls[lastCall.s].startNow # 0 /\ calls[lastCall.s].stopNow # 0

\* C6 as stated: once any boundary call of a session has returned non-zero,
\* its later start, stop and processTrace make no call into the plugin.
C6_AnyFailureDegrades ==
    lastCall.op \in SessionOps /\ lastCall.failedBefore => ~lastCall.real

\* C6 amended: start, stop and processTrace call into the plugin exactly when
\* the session's create call returned zero, whatever start, stop or
\* process-events returned before.
C6_OnlyFailedCreateDegrades ==
    lastCall.op \in SessionOps => (lastCall.real <=> ~calls[lastCall.s].createFailed)

\* C6 witness: a call into the plugin by a session that has seen a failure
C6_Witness ==
    lastCall.op \in SessionOps /\ lastCall.failedBefore /\ lastCall.real

\* the six entry points of an interface struct are all the adapter's stubs
AllStubs(p) ==
    /\ p.profilerCreate = "stub" /\ p.profilerDestroy = "stub"
    /\ p.profilerQuery = "stub" /\ p.profilerStart = "stub"
    /\ p.profilerStop = "stub" /\ p.profilerProcessEvents = "stub"

\* C7: with an undersized plugin interface, all six entry points are stubs in
\* the PluginProfiler and in every session, none of the plugin's own entry
\* points is ever called, the name is "N/A" and every session's handle is
\* null.
C7_UndersizedInterfaceIsDisabled ==
    Undersized =>
        /\ pluginCalled = {}
        /\ profiler.constructed => AllStubs(profiler.profiler_) /\ profiler.name_ = "N/A"
        /\ \A s \in Sessions : session[s].state = "live" =>
              AllStubs(session[s].profiler_) /\ session[s].pProfilerHandle_ = NullHandle

\* C7 witness: a session of an undersized plugin was started, stopped and
\* processed
C7_Witness ==
    /\ Undersized
    /\ lastCall.op = "processTrace"
    /\ calls[lastCall.s].startNow # 0 /\ calls[lastCall.s].stopNow # 0

\* the internal kind of the same name as a wire code, the default kind for a
\* code the table does not know
TranslatedKind(code) ==
    IF \E k \in ActivityType \ {"CUDA_PROFILER_RANGE"} :
            code = "KINETO_PLUGIN_PROFILE_EVENT_TYPE_" \o k
    THEN CHOOSE k \in ActivityType : code = "KINETO_PLUGIN_PROFILE_EVENT_TYPE_" \o k
    ELSE "CONCURRENT_KERNEL"

\* kind, name, times and id of the activities of a sequence
Shown(activities) ==
    [i \in 1..Len(activities) |->
        [type |-> activities[i].type, name |-> activities[i].activityName,
         startTime |-> activities[i].startTime, endTime |-> activities[i].endTime,
         id |-> activities[i].id]]

\* the same for what the plugin added: the kind translated, the name last
\* given, the times and id supplied
Wanted(added) ==
    [i \in 1..Len(added) |->
        [type |-> TranslatedKind(added[i].event.eventType), name |-> added[i].name,
         startTime |-> added[i].event.startTimeUtcNs,
         endTime |-> added[i].event.endTimeUtcNs,
         id |-> added[i].event.eventId]]

\* the last operation is the end of a processTrace call
Processed == lastCall.op = "processTraceReturn"

\* C8: after start, stop and processTrace, the session's trace buffer holds
\* exactly the events of the successful addEvent calls, in call order, each
\* with its translated kind, the name set after it, and the times and id
\* supplied; the sink got each of them once, in that order.
C8_BufferAndSinkHoldAddedEvents ==
    Processed =>
        /\ Shown(session[lastCall.s].traceBuffer_.activities) = Wanted(expected[lastCall.s])
        /\ Shown(sink) = Wanted(expected[lastCall.s])

\* C8 witness: two events added and named, a rejected call in between or not
C8_Witness ==
    /\ Processed
    /\ calls[lastCall.s].startNow # 0 /\ calls[lastCall.s].stopNow # 0
    /\ Len(sink) = MaxEvents
    /\ sink[1].type = "CUDA_RUNTIME" /\ sink[1].activityName = "cudaLaunchKernel"
    /\ sink[2].type = "CONCURRENT_KERNEL" /\ sink[2].activityName = "cuLaunchKernel"
    /\ sink[2].endTime = UnknownKindEvent.endTimeUtcNs

\* C9 as stated: a second processTrace on the same session hands no activity
\* to the sink.
C9_SecondProcessTraceHandsNothing ==
    Processed /\ lastCall.processedBefore => sink = << >>

\* C9 amended: every processTrace starts from a new, empty builder and calls
\* the plugin again, and hands to the sink exactly the events added during
\* that call, which then are the session's trace buffer.
C9_EveryProcessTraceStartsEmpty ==
    /\ \A s \in Sessions : builder[s].live =>
          Len(builder[s].buffer_.activities) = Len(expected[s])
    /\ Processed =>
          /\ sink = session[lastCall.s].traceBuffer_.activities
          /\ Len(sink) = Len(expected[lastCall.s])

\* C9 witness: a second processTrace handed events over, as the first had
C9_Witness ==
    Processed /\ lastCall.deliveredBefore /\ sink # << >>

\* C10: start and stop record their clock reading on every call, with a null
\* handle and with a failing plugin too; the span processTrace builds is
\* bounded by the readings of the latest start and the latest stop.
C10_TimestampsAlwaysRecorded ==
    \A s \in Sessions : session[s].state = "live" =>
        /\ session[s].lastStartTimestampUtcNs_ = calls[s].startNow
        /\ session[s].lastStopTimestampUtcNs_ = calls[s].stopNow
        /\ builder[s].live =>
              builder[s].buffer_.span = TraceSpan(calls[s].startNow, calls[s].stopNow,
                                                  profiler.name_)
        /\ Processed /\ lastCall.s = s =>
              session[s].traceBuffer_.span = TraceSpan(calls[s].startNow, calls[s].stopNow,
                                                       profiler.name_)

\* C10 witness: a span from a later start and an earlier stop, one of which
\* the plugin failed
C10_Witness ==
    /\ Processed /\ lastCall.rc = 0
    /\ calls[lastCall.s].failed
    /\ session[lastCall.s].traceBuffer_.span.startTime = MaxTime
    /\ session[lastCall.s].traceBuffer_.span.endTime = 1

\* a call was just made on the builder driven on its own
BuilderCalled == tbCall'.n # tbCall.n

\* the activities of that builder
Activities == traceBuilder.buffer_.activities

\* the event that builder got last
LastActivity == Activities[Len(Activities)]

\* the size below which the structure an operation receives is too short for
\* the operation
MinSizeFor(op) ==
    CASE op = "addEvent"         -> KINETO_PLUGIN_PROFILE_EVENT_UNPADDED_STRUCT_SIZE
      [] op = "setLastEventFlow" -> KINETO_PLUGIN_PROFILE_EVENT_FLOW_UNPADDED_STRUCT_SIZE
      [] op = "addResourceInfo"  -> KINETO_PLUGIN_PROFILE_RESOURCE_INFO_UNPADDED_STRUCT_SIZE
      [] OTHER                   -> 0

\* C11: addEvent rejects every event whose declared size is below the size of
\* the profile-event structure, reading none of its other fields, and accepts
\* every non-null event that declares at least that size.
C11_AddEventChecksEventSize ==
    tbCall.op = "addEvent" /\ ~tbCall.nullArg =>
        IF tbCall.size < MinSizeFor("addEvent")
        THEN tbCall.rc < 0 /\ tbCall.read \subseteq {"unpaddedStructSize"}
        ELSE tbCall.rc = 0

\* C12: setLastEventFlow and addResourceInfo compare the declared size with
\* the minimum size of the structure they receive before they read any other
\* field; a smaller size gives a negative result and leaves events and
\* resource infos unchanged, and the size is no reason to reject otherwise.
C12_FlowAndResourceInfoCheckOwnSize ==
    [][ BuilderCalled /\ tbCall'.op \in {"setLastEventFlow", "addResourceInfo"}
        /\ ~tbCall'.nullArg =>
          IF tbCall'.size < MinSizeFor(tbCall'.op)
          THEN /\ tbCall'.rc < 0
               /\ tbCall'.read \subseteq {"unpaddedStructSize"}
               /\ traceBuilder' = traceBuilder
          ELSE tbCall'.rc = 0 \/ (tbCall'.op = "setLastEventFlow" /\ Activities = << >>)
      ]_vars

\* C12 witness: a flow one byte short was refused on a builder holding an
\* event and a resource info
C12_Witness ==
    /\ tbCall.op = "setLastEventFlow" /\ ~tbCall.nullArg
    /\ tbCall.size < MinSizeFor("setLastEventFlow")
    /\ tbCall.rc < 0
    /\ Activities # << >> /\ traceBuilder.resourceInfos_ # << >>

\* C13: addEvent, setLastEventName, setLastEventFlow, addLastEventMetadata and
\* addResourceInfo, called with a null required pointer, return a negative
\* result and leave the events, their fields and the resource infos unchanged.
C13_NullPointerRejected ==
    [][ BuilderCalled /\ tbCall'.nullArg =>
          tbCall'.rc < 0 /\ traceBuilder' = traceBuilder ]_vars

\* C13 witness: a null value was refused by addLastEventMetadata on a builder
\* holding an event and a resource info
C13_Witness ==
    /\ tbCall.op = "addLastEventMetadata" /\ tbCall.nullArg /\ tbCall.rc < 0
    /\ Activities # << >> /\ traceBuilder.resourceInfos_ # << >>

\* the operations on the last event
LastEventOps == {"setLastEventName", "setLastEventFlow", "addLastEventMetadata"}

\* C14: while no event has been added, setLastEventName, setLastEventFlow and
\* addLastEventMetadata fail with a negative result and change nothing,
\* whatever the arguments; once an event has been added they succeed on valid
\* arguments.
C14_LastEventOpsNeedAnEvent ==
    [][ BuilderCalled /\ tbCall'.op \in LastEventOps =>
          IF Activities = << >>
          THEN tbCall'.rc < 0 /\ traceBuilder' = traceBuilder
          ELSE ~tbCall'.nullArg /\ tbCall'.size >= MinSizeFor(tbCall'.op)
                  => tbCall'.rc = 0
      ]_vars

\* C14 witness: a valid name was refused after nothing but refused addEvent
\* calls and an accepted resource info
C14_Witness ==
    /\ tbCall.op = "setLastEventName" /\ ~tbCall.nullArg /\ tbCall.rc < 0
    /\ tbCall.n = MaxBuilderCalls
    /\ Activities = << >> /\ traceBuilder.resourceInfos_ # << >>

\* the link type of a flow-kind code, no link for a code without one
TranslatedLink(code) ==
    IF code = "KINETO_PLUGIN_PROFILE_EVENT_FLOW_TYPE_FWD_BWD" THEN kLinkFwdBwd
    ELSE IF code = "KINETO_PLUGIN_PROFILE_EVENT_FLOW_TYPE_ASYNC_CPU_GPU" THEN kLinkAsyncCpuGpu
    ELSE 0

\* C15: translation never fails: a well-formed event of any kind code is
\* appended, with the internal kind of the same name, or CONCURRENT_KERNEL for
\* a code without one; a well-formed flow of any kind code is attached to the
\* last event, with its link type, or 0 for a code without one.
C15_TranslationIsTotal ==
    /\ tbCall.op = "addEvent" /\ ~tbCall.nullArg
       /\ tbCall.size >= MinSizeFor("addEvent") =>
          /\ tbCall.rc = 0
          /\ Activities # << >>
          /\ LastActivity.type = TranslatedKind(tbCall.kind)
    /\ tbCall.op = "setLastEventFlow" /\ ~tbCall.nullArg
       /\ tbCall.size >= MinSizeFor("setLastEventFlow") /\ Activities # << >> =>
          /\ tbCall.rc = 0
          /\ LastActivity.flow.type = TranslatedLink(tbCall.kind)

\* C15 witness: a flow of an unknown kind attached to an event of an unknown
\* kind
C15_Witness ==
    /\ tbCall.op = "setLastEventFlow" /\ tbCall.rc = 0
    /\ tbCall.kind = UnknownKindFlow.flowType
    /\ LastActivity.type = "CONCURRENT_KERNEL"
    /\ LastActivity.id = UnknownKindEvent.eventId
    /\ LastActivity.flow = [id |-> UnknownKindFlow.flowId, type |-> 0, start |-> 1]

\* C16: whatever the plugin's query writes into the 32-byte name buffer, the
\* name the adapter stores is at most 31 characters long and was read from
\* inside the buffer only.
C16_StoredNameIsBounded ==
    nameQuery.done /\ nameQuery.errorCode = 0 =>
        nameQuery.name_.len <= profilerNameMaxLen /\ nameQuery.name_.inBuffer

\* the edges of the cycle WaitForRequest -> Warmup -> CollectTrace ->
\* ProcessTrace -> WaitForRequest
RunloopEdges ==
    { <<"WaitForRequest", "Warmup">>, <<"Warmup", "CollectTrace">>,
      <<"CollectTrace", "ProcessTrace">>, <<"ProcessTrace", "WaitForRequest">> }

\* C17: the runloop state starts as WaitForRequest and, whatever the
\* interleaving of performRunLoopStep, configure, startTrace, stopTrace,
\* processTrace, reset and transferCpuTrace, every change of it follows an edge
\* of the cycle WaitForRequest -> Warmup -> CollectTrace -> ProcessTrace ->
\* WaitForRequest.
C17_StateFollowsTheCycle ==
    /\ activityProfiler.currentRunloopState_ = "WaitForRequest"
    /\ [][activityProfiler'.currentRunloopState_ # activityProfiler.currentRunloopState_ =>
            << activityProfiler.currentRunloopState_,
               activityProfiler'.currentRunloopState_ >> \in RunloopEdges]_vars

\* a stop was requested during the warm-up, a start is being requested while
\* the trace is processed, and the state has gone round to ProcessTrace
C17_Witness ==
    /\ activityProfiler.currentRunloopState_ = "ProcessTrace"
    /\ activityProfiler.stopCollection_
    /\ \E t \in CallerThreads : inBody(t, "startTrace")

\* C18: whenever the runloop state leaves WaitForRequest it eventually is
\* WaitForRequest again, given that the control thread keeps calling
\* performRunLoopStep and time advances.
C18_AlwaysReturnsToWaitForRequest ==
    (activityProfiler.currentRunloopState_ # "WaitForRequest")
        ~> (activityProfiler.currentRunloopState_ = "WaitForRequest")

\* a trace is being collected whose end time lies ahead and that nobody has
\* asked to stop: only the passing of time can end it
C18_Witness ==
    /\ activityProfiler.currentRunloopState_ = "CollectTrace"
    /\ clock < activityProfiler.profileEndTime_
    /\ ~activityProfiler.stopCollection_

\* C19: startTrace, stopTrace, processTrace, reset, configure,
\* transferCpuTrace, applyNetFilter, addMetadata and recordThreadInfo hold the
\* one mutex for as long as they are in their body: no two threads are in a
\* body at once, neither two callers nor a caller and the control thread's
\* step, and the thread in a body is the holder of the mutex.
C19_EntryPointsExcludeEachOther ==
    \A t \in Threads :
        thread[t].at = "body" =>
            /\ activityProfiler.mutex_ = t
            /\ \A u \in Threads \ {t} : thread[u].at # "body"

\* a caller is inside addMetadata while the other caller and the control
\* thread's step wait for the mutex
C19_Witness ==
    \E t \in CallerThreads :
        /\ inBody(t, "addMetadata")
        /\ thread[ControlThread] = [op |-> "performRunLoopStep", at |-> "lock"]
        /\ \E u \in CallerThreads \ {t} :
              thread[u].at = "lock" /\ thread[u].op \in SynchronousEntryPoints

\* a thread has called stopTrace and has not taken the mutex yet
StopRequested(t) == thread[t] = [op |-> "stopTrace", at |-> "lock"]

\* C20 as stated: a stop request made while another thread holds the mutex
\* does not wait for the mutex; the stop flag is set without the requester
\* blocking behind the locked section.
C20_StopRequestNeverWaits ==
    \A t \in CallerThreads :
        StopRequested(t) /\ activityProfiler.mutex_ \notin {NoThread, t} =>
            activityProfiler.stopCollection_

\* C20, amended: stopTrace takes the shared mutex like every other synchronous
\* entry point, so a stop request made while another thread holds the mutex
\* waits for it, and the stop flag is only ever set by the thread that holds
\* the mutex, as it leaves stopTrace or transferCpuTrace.
C20_StopFlagSetUnderTheMutex ==
    /\ [](\A t \in CallerThreads :
            StopRequested(t) /\ activityProfiler.mutex_ # NoThread =>
                ~ENABLED lock_guard(t))
    /\ [][~activityProfiler.stopCollection_ /\ activityProfiler'.stopCollection_ =>
            \E t \in CallerThreads :
                /\ activityProfiler.mutex_ = t
                /\ thread[t].at = "body"
                /\ thread[t].op \in {"stopTrace", "transferCpuTrace"}
                /\ thread'[t] = Idle]_vars

\* a caller has asked to stop a trace that is being collected while the other
\* caller is in a locked section: the stop flag is not set
C20_Witness ==
    \E t \in CallerThreads : \E u \in CallerThreads \ {t} :
        /\ StopRequested(t)
        /\ activityProfiler.mutex_ = u
        /\ thread[u].at = "body"
        /\ activityProfiler.currentRunloopState_ = "CollectTrace"
        /\ ~activityProfiler.stopCollection_

\* C21: isActive() returns true exactly when the runloop state is not
\* WaitForRequest, and it reads the atomic state without taking the shared
\* mutex: an idle thread can always complete the call, whoever holds the mutex.
C21_IsActiveReadsStateWithoutMutex ==
    /\ [](\A t \in CallerThreads : thread[t] = Idle => ENABLED callIsActive(t))
    /\ [][stateQuery' # stateQuery =>
            /\ stateQuery'.result =
                  (activityProfiler.currentRunloopState_ # "WaitForRequest")
            /\ activityProfiler' = activityProfiler
            /\ thread' = thread]_vars

\* isActive() has answered true while the other caller was in a locked section
C21_Witness ==
    /\ stateQuery.called
    /\ stateQuery.result
    /\ stateQuery.holder \in CallerThreads \ {stateQuery.by}

\* C22: stopping is cooperative. The step that sets the stop flag never
\* changes the runloop state, and the state leaves CollectTrace only in a step
\* of the thread that holds the mutex inside performRunLoopStep or a locked
\* method, which by then observes the flag or the end time.
C22_StopIsCooperative ==
    [][/\ (~activityProfiler.stopCollection_ /\ activityProfiler'.stopCollection_ =>
              activityProfiler'.currentRunloopState_ = activityProfiler.currentRunloopState_)
       /\ (activityProfiler.currentRunloopState_ = "CollectTrace"
             /\ activityProfiler'.currentRunloopState_ # "CollectTrace" =>
              \E t \in Threads :
                  /\ activityProfiler.mutex_ = t
                  /\ thread[t].at = "body"
                  /\ holdsMutex(thread[t].op)
                  /\ (activityProfiler.stopCollection_
                        \/ clock >= activityProfiler.profileEndTime_))]_vars

\* a stop has been requested for a trace that is still being collected and
\* whose end time has not come: the request waits for the next step
C22_Witness ==
    /\ activityProfiler.currentRunloopState_ = "CollectTrace"
    /\ activityProfiler.stopCollection_
    /\ clock < activityProfiler.profileEndTime_
    /\ thread[ControlThread] = Idle

\* the external id the calls so far map (id, flowType) to: that of the last
\* addCorrelation for the pair since the last clear, if any
RECURSIVE CurrentExternalId(_, _, _)
CurrentExternalId(h, id, flowType) ==
    IF h = << >> THEN NoId
    ELSE LET last == h[Len(h)] IN
         IF last.op = "clear" THEN NoId
         ELSE IF last.op = "addCorrelation" /\ last.b = id /\ last.flowType = flowType
              THEN last.a
              ELSE CurrentExternalId(SubSeq(h, 1, Len(h) - 1), id, flowType)

\* whether the calls so far registered an activity under the external id
\* since the last clear
RECURSIVE Registered(_, _)
Registered(h, external_id) ==
    IF h = << >> THEN FALSE
    ELSE LET last == h[Len(h)] IN
         IF last.op = "clear" THEN FALSE
         ELSE IF last.op = "insertEvent" /\ last.a = external_id
              THEN TRUE
              ELSE Registered(SubSeq(h, 1, Len(h) - 1), external_id)

\* what the claim expects of a lookup after the calls so far
ExpectedActivity(h, id, flowType) ==
    LET external_id == CurrentExternalId(h, id, flowType) IN
    IF external_id = NoId \/ ~Registered(h, external_id)
    THEN NoActivity
    ELSE CHOOSE op \in CpuActivities : op.correlationId = external_id

\* the call made last on the per-trace data, when this step made one
TraceCalled(op) ==
    /\ Len(traceCalls') = Len(traceCalls) + 1
    /\ traceCalls'[Len(traceCalls')].op = op

\* C23: after every sequence of addCorrelation and insertEvent calls,
\* getActivity(id, flow) is the activity registered under the external id the
\* last addCorrelation for (id, flow) named, or "not found" when either link
\* is missing; and an addCorrelation for one flow type changes no lookup of
\* the other flow type.
C23_LookupFollowsLastCorrelation ==
    /\ [](\A id \in CudaIds, flowType \in CorrelationFlowType :
            getGenericTraceActivity(traceData.externalEvents_, id, flowType)
                = ExpectedActivity(traceCalls, id, flowType))
    /\ [][TraceCalled("addCorrelation") =>
            \A id \in CudaIds, flowType \in CorrelationFlowType :
                flowType # traceCalls'[Len(traceCalls')].flowType =>
                    getGenericTraceActivity(traceData'.externalEvents_, id, flowType)
                        = getGenericTraceActivity(traceData.externalEvents_, id, flowType)]_vars

\* one low-level id resolves to a registered activity for the Default flow
\* while the User flow maps it to an external id nothing is registered under
C23_Witness ==
    \E id \in CudaIds :
        /\ getGenericTraceActivity(traceData.externalEvents_, id, "Default") \in CpuActivities
        /\ traceData.externalEvents_.userCorrelationMap_[id]
              \notin {NoId, traceData.externalEvents_.defaultCorrelationMap_[id]}
        /\ getGenericTraceActivity(traceData.externalEvents_, id, "User") = NoActivity

\* the span kept for the GPU activity's stream under the CPU activity's id
SpanFor(td, cpuTraceActivity, gpuTraceActivity) ==
    td.gpuUserEventMap_.streamSpanMap
        [<< gpuTraceActivity.deviceId, gpuTraceActivity.resourceId >>]
        [cpuTraceActivity.correlationId]

\* C24: insertOrExtendEvent is idempotent-widening per (device, stream,
\* correlation id). The first call creates a span over the GPU activity's
\* interval; a later call whose interval lies inside the span leaves its
\* bounds; a later call grows the span to the union of both; the start never
\* increases and the end never decreases; no other span is touched.
C24_InsertOrExtendWidens ==
    [][lastTraceCall'.op = "insertOrExtendEvent"
         /\ (lastTraceCall' # lastTraceCall \/ traceData' # traceData) =>
        LET cpu == lastTraceCall'.args[1]
            gpu == lastTraceCall'.args[2]
            old == SpanFor(traceData, cpu, gpu)
            new == SpanFor(traceData', cpu, gpu) IN
        /\ old = NoSpan => new = Span(gpu.startTime, gpu.endTime)
        /\ old # NoSpan =>
              /\ new.startTime = Min(old.startTime, gpu.startTime)
              /\ new.endTime = Max(old.endTime, gpu.endTime)
              /\ new.startTime <= old.startTime
              /\ new.endTime >= old.endTime
              /\ (old.startTime <= gpu.startTime /\ gpu.endTime <= old.endTime => new = old)
        /\ \A k \in StreamKeys, c \in SpanCorrelationIds :
              << k, c >> # << << gpu.deviceId, gpu.resourceId >>, cpu.correlationId >> =>
                  traceData'.gpuUserEventMap_.streamSpanMap[k][c]
                      = traceData.gpuUserEventMap_.streamSpanMap[k][c]]_vars

\* a span has been widened: the call made last brought its start, while its
\* end, from an earlier call, lies beyond that call's end
C24_Witness ==
    /\ lastTraceCall.op = "insertOrExtendEvent"
    /\ LET cpu == lastTraceCall.args[1]
           gpu == lastTraceCall.args[2]
           span == SpanFor(traceData, cpu, gpu) IN
       /\ span.startTime = gpu.startTime
       /\ span.endTime > gpu.endTime

\* the (device, stream) of a span handed to the logger
StreamKeyOf(a) == << a.deviceId, a.resourceId >>

\* every synthesized span was handed to the logger exactly once
LoggedExactlyOnce ==
    /\ Len(lastTraceCall.logged) = Cardinality(SynthesizedSpans(traceData.gpuUserEventMap_))
    /\ { lastTraceCall.logged[i] : i \in 1..Len(lastTraceCall.logged) }
          = SynthesizedSpans(traceData.gpuUserEventMap_)

\* the spans were handed to the logger in (device, stream) order
LoggedInStreamOrder ==
    \A i, j \in 1..Len(lastTraceCall.logged) :
        i < j => \/ StreamKeyOf(lastTraceCall.logged[i]) = StreamKeyOf(lastTraceCall.logged[j])
                 \/ StreamKeyOf(lastTraceCall.logged[i])[1] < StreamKeyOf(lastTraceCall.logged[j])[1]
                 \/ /\ StreamKeyOf(lastTraceCall.logged[i])[1] = StreamKeyOf(lastTraceCall.logged[j])[1]
                    /\ StreamKeyOf(lastTraceCall.logged[i])[2] < StreamKeyOf(lastTraceCall.logged[j])[2]

TraceDataCalled(op) ==
    /\ lastTraceCall'.op = op
    /\ (lastTraceCall' # lastTraceCall \/ traceData' # traceData)

\* C28: a CPU trace buffer passes the GPU-op-count filter iff the backend is
\* CPU-only, or its gpuOpCount is negative, or its gpuOpCount is at least the
\* configured threshold; a buffer that fails is dropped entirely (no span
\* pair, no correlation id entered), and one that passes it and the name
\* filter leaves a span pair and its activity's correlation id.
C28_GpuOpCountAdmission ==
    [][TraceDataCalled("transferCpuTrace") =>
        LET cpuTrace == lastTraceCall'.args[1]
            passes == \/ traceData.cpuOnly_
                      \/ cpuTrace.gpuOpCount < 0
                      \/ cpuTrace.gpuOpCount >= traceData.netGpuOpCountThreshold_
            named == traceData.netNameFilter_ = {} \/ cpuTrace.name \in traceData.netNameFilter_ IN
        /\ ~passes => traceData' = traceData
        /\ passes /\ named =>
              /\ Len(traceData'.traceSpans_[cpuTrace.name])
                    = Len(traceData.traceSpans_[cpuTrace.name]) + 1
              /\ \A op \in cpuTrace.activities :
                    /\ traceData'.clientActivityTraceMap_[op.correlationId] # NoSpanPair
                    /\ traceData'.externalEvents_.events_[op.correlationId] = op]_vars

\* with GPU tracing and a threshold of one, a buffer without GPU ops was
\* handed in and nothing is recorded, a buffer with one GPU op having been
\* admitted before
C28_Witness ==
    /\ lastTraceCall.op = "transferCpuTrace"
    /\ lastTraceCall.args[1].gpuOpCount = 0
    /\ ~traceData.cpuOnly_
    /\ traceData.netGpuOpCountThreshold_ = 1
    /\ Len(traceData.traceBuffers_) = 1
    /\ traceData.traceBuffers_[1].gpuOpCount = 1
    /\ traceData.clientActivityTraceMap_[
           (CHOOSE op \in lastTraceCall.args[1].activities : TRUE).correlationId] = NoSpanPair

\* the activity of the per-trace data with the correlation id
ActivityWithId(id) == CpuActivity("any", id)

\* C29: loggingDisabled(activity) is true iff the activity's correlation id
\* is mapped to a span pair whose CPU span name is in the disabled set; an
\* activity whose id maps to no span is never disabled; and marking a name
\* disabled removes nothing from the span registry or the correlation maps.
C29_DisabledIsATombstone ==
    /\ [](\A id \in ExternalIds :
            /\ loggingDisabled(traceData, ActivityWithId(id)) <=>
                  \E name \in traceData.disabledTraceSpans_ :
                      \E i \in 1..Len(traceData.traceSpans_[name]) :
                          traceData.clientActivityTraceMap_[id] = SpanPairRef(name, i)
            /\ traceData.clientActivityTraceMap_[id] = NoSpanPair =>
                  ~loggingDisabled(traceData, ActivityWithId(id)))
    /\ [][TraceDataCalled("disableTraceSpan") =>
            /\ traceData'.traceSpans_ = traceData.traceSpans_
            /\ traceData'.traceBuffers_ = traceData.traceBuffers_
            /\ traceData'.clientActivityTraceMap_ = traceData.clientActivityTraceMap_
            /\ traceData'.externalEvents_ = traceData.externalEvents_]_vars

\* of two recorded activities one is disabled with its span and the other,
\* of a span that is not disabled, is not; the disabled span is still recorded
C29_Witness ==
    /\ lastTraceCall.op = "disableTraceSpan"
    /\ \E id1 \in ExternalIds, id2 \in ExternalIds :
          /\ loggingDisabled(traceData, ActivityWithId(id1))
          /\ traceData.clientActivityTraceMap_[id2] # NoSpanPair
          /\ ~loggingDisabled(traceData, ActivityWithId(id2))
    /\ \A name \in traceData.disabledTraceSpans_ : traceData.traceSpans_[name] # << >>

NoDanglingReference(td) ==
    /\ \A id \in ExternalIds :
          td.externalEvents_.events_[id] # NoActivity =>
              \E i \in 1..Len(td.traceBuffers_) :
                  td.externalEvents_.events_[id] \in td.traceBuffers_[i].activities
    /\ \A id \in ExternalIds :
          td.clientActivityTraceMap_[id] # NoSpanPair =>
              td.clientActivityTraceMap_[id].iteration
                  \in 1..Len(td.traceSpans_[td.clientActivityTraceMap_[id].name])

\* the registry or the buffers were cleared from td on the way to cleared
RegistryCleared(td, cleared) ==
    \/ cleared.traceSpans_ # td.traceSpans_
    \/ cleared.traceBuffers_ # td.traceBuffers_

RECURSIVE SamplesOf(_, _)
SamplesOf(h, counter) ==
    IF h = << >> THEN << >>
    ELSE (IF h[1].counter = counter THEN << h[1].overhead >> ELSE << >>)
             \o SamplesOf(Tail(h), counter)

RECURSIVE SumOf(_)
SumOf(samples) == IF samples = << >> THEN 0 ELSE samples[1] + SumOf(Tail(samples))

\* q is the integer quotient of sum by n: what is left over is smaller than
\* n and has the sign of sum
IsQuotient(q, sum, n) ==
    LET rest == sum - q * n IN
    /\ Abs(rest) < n
    /\ rest = 0 \/ (rest < 0) = (sum < 0)

\* C30: after any sequence of addOverheadSample calls, getOverhead of a
\* counter is the integer quotient of the sum of the samples added to that
\* counter by the number of them, and 0 when none was added; samples added to
\* one counter never change the other.
C30_OverheadIsAverageOfOwnSamples ==
    \A counter \in OverheadCounters :
        LET samples == SamplesOf(traceCalls, counter) IN
        IF samples = << >>
        THEN getOverhead(traceData[counter]) = 0
        ELSE IsQuotient(getOverhead(traceData[counter]), SumOf(samples), Len(samples))

\* both counters hold samples, the flush counter two whose sum is odd and
\* negative, and the averages differ
C30_Witness ==
    /\ Len(SamplesOf(traceCalls, "flushOverhead_")) = 2
    /\ SumOf(SamplesOf(traceCalls, "flushOverhead_")) = -1
    /\ Len(SamplesOf(traceCalls, "setupOverhead_")) = 1
    /\ getOverhead(traceData.flushOverhead_) = 0
    /\ getOverhead(traceData.setupOverhead_) = 1

\* C31: when the plugin's process-events call returns non-zero after having
\* added events, processTrace still takes the builder's buffer and hands
\* every event added before the failure to the sink, in add order; the
\* session and its handle stay as they were (the failure is only logged).
C31_FailedProcessEventsStillHandsEventsOver ==
    Processed /\ lastCall.real /\ lastCall.rc # 0 =>
        /\ ~session[lastCall.s].traceBuffer_.isNull
        /\ Shown(session[lastCall.s].traceBuffer_.activities) = Wanted(expected[lastCall.s])
        /\ Shown(sink) = Wanted(expected[lastCall.s])
        /\ session[lastCall.s].state = "live"
        /\ session[lastCall.s].pProfilerHandle_ = lastCall.handle

\* C31 witness: the plugin added and named two events and then returned
\* non-zero
C31_Witness ==
    /\ Processed /\ lastCall.real /\ lastCall.rc # 0
    /\ Len(expected[lastCall.s]) = MaxEvents
    /\ Len(sink) = MaxEvents
    /\ sink[1].activityName = "cudaLaunchKernel"
    /\ sink[2].activityName = "cuLaunchKernel"

\* the builder calls that work on the buffer's events
EventOps == {"addEvent", "setLastEventName", "setLastEventFlow", "addLastEventMetadata"}

\* C32: getTraceBuffer leaves the builder without a buffer, and from then on
\* no call gives it one back: every later addEvent, setLastEventName,
\* setLastEventFlow and addLastEventMetadata returns a negative result and
\* leaves the builder as it was, while addResourceInfo is decided by its
\* argument alone and, given a well-formed one, returns zero and appends one
\* entry to the resource-info list.
C32_ReleasedBuilderRejectsEventCalls ==
    [][ BuilderCalled =>
         /\ tbCall'.op = "getTraceBuffer" => traceBuilder'.buffer_.isNull
         /\ traceBuilder.buffer_.isNull =>
              /\ traceBuilder'.buffer_ = traceBuilder.buffer_
              /\ tbCall'.op \in EventOps =>
                    tbCall'.rc < 0 /\ traceBuilder' = traceBuilder
              /\ tbCall'.op = "addResourceInfo" =>
                    IF tbCall'.nullArg
                       \/ tbCall'.size < KINETO_PLUGIN_PROFILE_RESOURCE_INFO_UNPADDED_STRUCT_SIZE
                    THEN tbCall'.rc < 0 /\ traceBuilder' = traceBuilder
                    ELSE /\ tbCall'.rc = 0
                         /\ Len(traceBuilder'.resourceInfos_) = Len(traceBuilder.resourceInfos_) + 1
                         /\ SubSeq(traceBuilder'.resourceInfos_, 1, Len(traceBuilder.resourceInfos_))
                               = traceBuilder.resourceInfos_ ]_vars

\* C32 witness: on a builder that held an event when its buffer was
\* released, a well-formed addEvent was rejected and a resource info added
C32_Witness ==
    /\ traceBuilder.buffer_.isNull
    /\ tbCall.op = "addEvent" /\ tbCall.rc < 0 /\ ~tbCall.nullArg
    /\ tbCall.size >= KINETO_PLUGIN_PROFILE_EVENT_UNPADDED_STRUCT_SIZE
    /\ Len(traceBuilder.resourceInfos_) = 1

\* the events of the builder after the step
ActivitiesAfter == traceBuilder'.buffer_.activities

\* the step changed at most the given attribute of the last event
OnlyLastChanged(attribute) ==
    /\ Activities # << >>
    /\ ActivitiesAfter =
          [Activities EXCEPT ![Len(Activities)] =
              [@ EXCEPT ![attribute] = ActivitiesAfter[Len(Activities)][attribute]]]

\* C33: a successful setLastEventName, setLastEventFlow or
\* addLastEventMetadata changes only the name, the flow, or the metadata of
\* the last event, the metadata by one pair appended; the number and order
\* of events, every earlier event and the resource infos stay as they were;
\* a successful addEvent appends exactly one event, with an empty name, and
\* no other call changes the event sequence.
C33_BuilderCallsTouchOnlyTheirTarget ==
    [][ BuilderCalled =>
         IF tbCall'.rc # 0 THEN traceBuilder' = traceBuilder
         ELSE /\ tbCall'.op = "addEvent" =>
                   /\ Len(ActivitiesAfter) = Len(Activities) + 1
                   /\ SubSeq(ActivitiesAfter, 1, Len(Activities)) = Activities
                   /\ ActivitiesAfter[Len(ActivitiesAfter)].activityName = ""
              /\ tbCall'.op = "setLastEventName" => OnlyLastChanged("activityName")
              /\ tbCall'.op = "setLastEventFlow" => OnlyLastChanged("flow")
              /\ tbCall'.op = "addLastEventMetadata" =>
                   /\ OnlyLastChanged("metadata")
                   /\ Len(ActivitiesAfter[Len(Activities)].metadata)
                         = Len(LastActivity.metadata) + 1
                   /\ SubSeq(ActivitiesAfter[Len(Activities)].metadata, 1,
                             Len(LastActivity.metadata)) = LastActivity.metadata
              /\ tbCall'.op \in LastEventOps =>
                   traceBuilder'.resourceInfos_ = traceBuilder.resourceInfos_
              /\ tbCall'.op = "addResourceInfo" => ActivitiesAfter = Activities
      ]_vars

\* C33 witness: of two events the second got a metadata pair, the first none
C33_Witness ==
    /\ tbCall.op = "addLastEventMetadata" /\ tbCall.rc = 0
    /\ Len(Activities) = 2
    /\ Activities[1].metadata = << >>
    /\ Activities[2].metadata = << << "stream", "7" >> >>

\* the last operation is a getTraceBuffer call on a session
Released == lastCall.op = "getTraceBuffer"

\* C34: PluginProfilerSession::getTraceBuffer leaves the session without a
\* buffer; it returns null before any processTrace has completed, on a
\* session with a null handle, and when it was already called since the
\* latest processTrace; otherwise it returns the buffer of the latest
\* processTrace, holding what that call handed to the sink.
C34_TraceBufferReleasedOnce ==
    Released =>
        /\ session[lastCall.s].traceBuffer_.isNull
        /\ IF lastCall.handle = NullHandle \/ ~lastCall.processedBefore
                                            \/ lastCall.releasedBefore
           THEN lastCall.buffer = NullBuffer
           ELSE /\ ~lastCall.buffer.isNull
                /\ lastCall.buffer.activities = sink
                /\ Shown(lastCall.buffer.activities) = Wanted(expected[lastCall.s])

\* C34 witness: the first call after a processTrace returned a buffer of two
\* events and left the session without one
C34_Witness ==
    /\ Released /\ ~lastCall.releasedBefore
    /\ Len(lastCall.buffer.activities) = MaxEvents
    /\ lastCall.buffer.activities[2].activityName = "cuLaunchKernel"
    /\ session[lastCall.s].traceBuffer_.isNull

\* the lower 32 bits of a pthread id, as its two low words
Low32(pthreadId) == << pthreadId[3], pthreadId[4] >>

\* the first of the calls made so far whose pthread id shares its lower 32
\* bits with that of call i
FirstWithLow32Of(i) ==
    CHOOSE j \in 1..i :
        /\ Low32(traceCalls[j].pthreadId) = Low32(traceCalls[i].pthreadId)
        /\ \A k \in 1..(j - 1) :
              Low32(traceCalls[k].pthreadId) # Low32(traceCalls[i].pthreadId)

\* the entries of threadInfo_ under the key of pthreadId
EntriesOf(pthreadId) ==
    { e \in activityProfiler.threadInfo_ : e[1] = int32_t(pthreadId) }

\* C35: threadInfo_ holds one entry for each distinct value of the lower 32
\* bits of the pthread ids recorded so far, and the entry is the thread info
\* of the first call with those lower 32 bits, whatever the upper bits of
\* that or of any later call; a recordThreadInfo call never removes or
\* changes an entry.
C35_ThreadInfoIsFirstWriterWinsOnLow32 ==
    /\ [](/\ \A i \in 1..Len(traceCalls) :
               EntriesOf(traceCalls[i].pthreadId) =
                  { << int32_t(traceCalls[i].pthreadId),
                       traceCalls[FirstWithLow32Of(i)].tid >> }
          /\ Cardinality(activityProfiler.threadInfo_) =
                Cardinality({ Low32(traceCalls[i].pthreadId) : i \in 1..Len(traceCalls) }))
    /\ [][activityProfiler.threadInfo_ \subseteq activityProfiler'.threadInfo_]_vars

\* C35 witness: 2^32 + 1 was recorded after 1 with another thread id and the
\* entry of 1 stayed; 2^31 has an entry under a negative key
C35_Witness ==
    /\ Len(traceCalls) = 3
    /\ traceCalls[1] = ThreadInfoCall(10, pthread_t(0, 0, 0, 1))
    /\ traceCalls[2] = ThreadInfoCall(11, pthread_t(0, 1, 0, 1))
    /\ traceCalls[3] = ThreadInfoCall(11, pthread_t(0, 0, Word \div 2, 0))
    /\ activityProfiler.threadInfo_ = { << 1, 10 >>, << (0 - Word \div 2) * Word, 11 >> }

\* C36: for every event-kind code, recognized or not, convertToActivityType
\* of PluginUtils.h returns the internal kind that
\* PluginTraceBuilder::convertToActivityType returns, and for every
\* flow-kind code the two convertToLinkType functions return the same link
\* type.
C36_TableCopiesAgree ==
    \A i \in 1..Len(traceCalls) :
        /\ traceCalls[i].PluginUtils = traceCalls[i].PluginTraceBuilder
        /\ traceCalls[i].op = "convertToActivityType" =>
              traceCalls[i].PluginUtils = TranslatedKind(traceCalls[i].type)
        /\ traceCalls[i].op = "convertToLinkType" =>
              traceCalls[i].PluginUtils = TranslatedLink(traceCalls[i].type)

\* C36 witness: the last code of the table, a code no table has and a flow
\* code no table has went through both copies
C36_Witness ==
    /\ Len(traceCalls) = 3
    /\ traceCalls[1] = ConversionCall("convertToActivityType",
                          "KINETO_PLUGIN_PROFILE_EVENT_TYPE_GPU_PM_COUNTER",
                          "GPU_PM_COUNTER", "GPU_PM_COUNTER")
    /\ traceCalls[2] = ConversionCall("convertToActivityType",
                          UnknownKindEvent.eventType,
                          "CONCURRENT_KERNEL", "CONCURRENT_KERNEL")
    /\ traceCalls[3] = ConversionCall("convertToLinkType", UnknownKindFlow.flowType, 0, 0)

============================================================================
